---- MODULE Spec2Model ----
(***************************************************************************)
(* Backtest Simulation Engine (src/src/backtest_engine.py) and the summary *)
(* statistics it reports (src/src/utils.py), as a state machine.           *)
(*                                                                         *)
(* Python's Optional values are modelled as sets: {} is None and {v} is    *)
(* the value v.  A Trade is a record; the fields that the dataclass leaves *)
(* None until the trade is closed (exit_idx, exit_price, exit_reason, pnl, *)
(* bars_held) are present in the record only once the trade is closed.     *)
(* Bar indices are the code's: 0 .. len(df) - 1.                           *)
(*                                                                         *)
(* run reads the series front to back and never looks ahead of the bar it  *)
(* is processing, so the series is an input read row by row: df and        *)
(* entry_signals hold the rows read so far, RunBar reads the next row and  *)
(* RunEnd is the loop finding no further row.                              *)
(***************************************************************************)
EXTENDS Integers, Sequences, FiniteSets, TLC

\* ------------------------------------------------------------------ bounds
\* longest bar series explored
MaxBars == 3
\* largest parameter grid swept
MaxGrid == 3
\* largest filters.max_combinations
MaxCap == 2
\* most conditions added to one StrategyBuilder
MaxConditions == 3
\* most candidates one worker evaluates
MaxEvals == 3
\* most calls of optimize() on one optimizer
MaxCalls == 2
\* longest trade table summarised
MaxTrades == 3
\* largest |pnl| of a summarised trade
MaxPnl == 2

VARIABLES
    source,           \* which series is being read: "any", "rising", "falling",
                      \* "worker" (the series of the worker process)
    signals_given,    \* what entry_conditions(df) returns: its type, its length
                      \* against len(df) and, when shorter, its number of rows
    df,               \* self.df, rows read so far: bar index -> [high, low, close, atr]
    entry_signals,    \* entry_conditions(df), rows read so far: bar index -> BOOLEAN
    direction,        \* self.direction
    stop_loss_atr,    \* self.stop_loss_atr
    take_profit_atr,  \* self.take_profit_atr
    max_hold_bars,    \* self.max_hold_bars (Optional)
    breakeven_at_tp1, \* self.breakeven_at_tp1
    trades,           \* self.trades
    in_trade,         \* self.in_trade
    current_trade,    \* self.current_trade (Optional)
    idx,              \* loop variable of run
    pc,               \* position in run / get_summary
    opened,           \* history: entry_idx of every Trade object created by run
    summary,          \* value returned by get_summary (Optional)
    use_multiprocessing, \* argument of PatternOptimizer.optimize
    param_grid,       \* param_grid of optimize: the candidates, in grid order
    backtest,         \* history: grid position -> what simulating that candidate
                      \* gave (an exception, or the summary of its trade table)
    mapped,           \* grid position -> return value of _evaluate_combination,
                      \* for the tasks of pool.map that have completed
    self_results,     \* self.results of the optimizer
    self_diagnostics, \* self.diagnostics of the optimizer
    returned,         \* the table optimize returned (Optional)
    saved,            \* the records save_results wrote (Optional)
    opt_i,            \* loop variable of the sequential loop, from 1
    opt_pc,           \* position in optimize / save_results
    generator,        \* one call of generate_parameter_grid: the configured
                      \* ranges and cap, its locals and its return value
    calls,            \* the calls of optimize() that returned before the
                      \* current one, each with the lists as it left them
    builder,          \* one StrategyBuilder: df, conditions, description, and
                      \* the last call made on it with its outcome
    worker            \* one worker process: _worker_df, _worker_pattern,
                      \* _worker_direction, the call of _evaluate_combination
                      \* in progress and the calls returned

\* the optimizer's variables
optimizer == <<use_multiprocessing, param_grid, backtest, mapped, self_results,
               self_diagnostics, returned, saved, opt_i, opt_pc>>

\* the engine's variables
engine == <<source, signals_given, df, entry_signals, direction, stop_loss_atr,
            take_profit_atr, max_hold_bars, breakeven_at_tp1, trades, in_trade,
            current_trade, idx, pc, opened, summary>>

\* the components beside one engine and one sweep
beside == <<generator, calls, builder, worker>>

vars == <<engine, optimizer, beside>>

\* what no step of an engine run changes: the constructor's arguments, and the
\* optimizer
params == <<source, signals_given, direction, stop_loss_atr, take_profit_atr, max_hold_bars,
            breakeven_at_tp1, optimizer, beside>>

\* ------------------------------------------------------------------ inputs
\* price levels of the bars of an "any" series: with stops and targets one or
\* two ATR = 1 away from the entry, three levels give every order of low,
\* high, stop, halfway point and target
Prices == 1..3

AtrValues == {1}

\* OHLC bars: low <= close <= high
Bars ==
    {b \in [high : Prices, low : Prices, close : Prices, atr : AtrValues] :
        b.low <= b.close /\ b.close <= b.high}

\* the 100-bar series of scenarios A and B: constant ATR 1, high = low = close,
\* close moving by `slope` per bar after bar 10, entry signal at bar 10 only
ScenarioRow(slope, i) ==
    LET c == IF i <= 10 THEN 100 ELSE 100 + slope * (i - 10)
    IN  [bar |-> [high |-> c, low |-> c, close |-> c, atr |-> 1], signal |-> (i = 10)]

\* the rows the series may hold at index i (none: the series has ended); an
\* engine made by a worker reads its copy of the worker's series and the
\* signals its entry function returned
NextRows(i) ==
    IF source = "any"
    THEN IF i < MaxBars THEN [bar : Bars, signal : BOOLEAN] ELSE {}
    ELSE IF source = "worker"
    THEN IF i < Len(worker.df)
         THEN {[bar |-> worker.df[i + 1].bar, signal |-> worker.signals[i + 1]]}
         ELSE {}
    ELSE IF i < 100
    THEN {ScenarioRow(IF source = "rising" THEN 1 ELSE -1, i)}
    ELSE {}

\* the series may have exactly i rows
SeriesEndsAt(i) ==
    IF source = "any" THEN i >= 1
    ELSE IF source = "worker" THEN i = Len(worker.df)
    ELSE i = 100

\* column col with one more row
WithRow(col, v) ==
    [i \in 0..Cardinality(DOMAIN col) |-> IF i \in DOMAIN col THEN col[i] ELSE v]

\* number of rows read; len(self.df) once the loop has ended
NumBars == Cardinality(DOMAIN df)

LastIdx == NumBars - 1

\* the one element of a non-empty Optional
Some(opt) == CHOOSE v \in opt : TRUE

RECURSIVE SumPnl(_)
SumPnl(s) == IF s = <<>> THEN 0 ELSE s[1].pnl + SumPnl(Tail(s))

Abs(x) == IF x < 0 THEN -x ELSE x

\* entry signals as the strategy builder makes them: a Series with one row per
\* bar of the series
Aligned == [form |-> "Series", extent |-> "same", rows |-> 0]

\* the entry signals have a row for bar i
SignalHasRow(i) == signals_given.extent = "shorter" => i < signals_given.rows

\* ------------------------------------------------------------------ engine
\* PatternOptimizer.__init__: no results and no diagnostics
OptimizerInit ==
    /\ param_grid = <<>>
    /\ backtest = <<>>
    /\ mapped = <<>>
    /\ self_results = <<>>
    /\ self_diagnostics = <<>>
    /\ returned = {}
    /\ saved = {}
    /\ opt_i = 1
    /\ opt_pc = "new"

\* generate_parameter_grid not called
GeneratorIdle ==
    [ranges |-> <<>>, max_combos |-> 1, total_checked |-> 0, param_grid |-> <<>>,
     pc |-> "idle", returned |-> <<>>]

\* no StrategyBuilder constructed
BuilderIdle == [df |-> <<>>, conditions |-> <<>>, description |-> <<>>, last |-> <<>>]

\* _worker_init not called
WorkerIdle ==
    [df |-> <<>>, pattern |-> "", direction |-> "", given |-> <<>>, pc |-> "idle",
     params |-> <<>>, signals |-> <<>>, evaluated |-> <<>>]

BesideIdle ==
    /\ generator = GeneratorIdle
    /\ builder = BuilderIdle
    /\ worker = WorkerIdle
    /\ calls = <<>>

\* an engine outside any sweep
NoSweep == use_multiprocessing = FALSE /\ OptimizerInit /\ BesideIdle

\* BacktestEngine.__init__: the engine's own state after construction
EngineInit ==
    /\ df = <<>>
    /\ entry_signals = <<>>
    /\ trades = <<>>
    /\ in_trade = FALSE
    /\ current_trade = {}
    /\ idx = 0
    /\ pc = "loop"
    /\ opened = <<>>
    /\ summary = {}

\* every series of 1 .. MaxBars bars with every entry signal, both directions,
\* target at one or two ATR, with and without time limit and breakeven rule.
\* With the target one ATR = 1 away the halfway point lies between two price
\* levels and a bar reaches it only by reaching the target, so the breakeven
\* rule is explored with the target two ATR away.
InitGeneral ==
    /\ source = "any"
    /\ direction \in {"long", "short"}
    /\ stop_loss_atr = 1
    /\ take_profit_atr \in {1, 2}
    /\ max_hold_bars \in {{}, {2}}
    /\ breakeven_at_tp1 \in {b \in BOOLEAN : b => take_profit_atr = 2}
    /\ signals_given = Aligned
    /\ EngineInit
    /\ NoSweep

\* scenarios A and B
InitScenario ==
    /\ source \in {"rising", "falling"}
    /\ direction = "long"
    /\ stop_loss_atr = 2
    /\ take_profit_atr = 3
    /\ max_hold_bars = {}
    /\ breakeven_at_tp1 = FALSE
    /\ signals_given = Aligned
    /\ EngineInit
    /\ NoSweep

Init == InitGeneral \/ InitScenario

\* every series of 1 .. MaxBars bars with every entry signal, both
\* directions, the target two ATR away, no time limit or a limit of one or
\* two bars
InitTimeLimit ==
    /\ source = "any"
    /\ direction \in {"long", "short"}
    /\ stop_loss_atr = 1
    /\ take_profit_atr = 2
    /\ max_hold_bars \in {{}, {1}, {2}}
    /\ breakeven_at_tp1 = FALSE
    /\ signals_given = Aligned
    /\ EngineInit
    /\ NoSweep

\* calculate_stop_and_target with the two ATR multiples exchanged
calculate_stop_and_target_swapped(d, i) ==
    LET entry_price == d[i].close
        atr == d[i].atr
    IN  IF direction = "long"
        THEN <<entry_price - (take_profit_atr * atr), entry_price + (stop_loss_atr * atr)>>
        ELSE <<entry_price + (take_profit_atr * atr), entry_price - (stop_loss_atr * atr)>>

\* calculate_stop_and_target(idx): <<stop_loss, take_profit>>
calculate_stop_and_target(d, i) ==
    LET entry_price == d[i].close
        atr == d[i].atr
    IN  IF direction = "long"
        THEN <<entry_price - (stop_loss_atr * atr), entry_price + (take_profit_atr * atr)>>
        ELSE <<entry_price + (stop_loss_atr * atr), entry_price - (take_profit_atr * atr)>>

\* Trade(entry_idx=idx, entry_price=close, direction, stop_loss, take_profit)
NewTrade(d, i) ==
    LET st == calculate_stop_and_target(d, i)
    IN  [entry_idx |-> i, entry_price |-> d[i].close, direction |-> direction,
         stop_loss |-> st[1], take_profit |-> st[2]]

\* the time-based exit test one bar late
TimeExitDueLate(t, i) ==
    /\ max_hold_bars # {}
    /\ (i - t.entry_idx) > Some(max_hold_bars)

\* the time-based exit test of check_exit
TimeExitDue(t, i) ==
    /\ max_hold_bars # {}
    /\ (i - t.entry_idx) >= Some(max_hold_bars)

\* the stop-loss test with strict comparisons
StopHitStrict(d, t, i) ==
    IF direction = "long" THEN d[i].low < t.stop_loss
                          ELSE d[i].high > t.stop_loss

\* the stop-loss test of check_exit
StopHit(d, t, i) ==
    IF direction = "long" THEN d[i].low <= t.stop_loss
                          ELSE d[i].high >= t.stop_loss

\* the take-profit test of check_exit
TargetHit(d, t, i) ==
    IF direction = "long" THEN d[i].high >= t.take_profit
                          ELSE d[i].low <= t.take_profit

\* the breakeven test with the target itself in place of the halfway point
BreakevenDueAtTarget(d, t, i) ==
    /\ breakeven_at_tp1
    /\ IF direction = "long"
       THEN /\ d[i].high >= t.take_profit
            /\ t.stop_loss < t.entry_price
       ELSE /\ d[i].low <= t.take_profit
            /\ t.stop_loss > t.entry_price

\* the breakeven test of check_exit; tp1 = entry +/- (distance to target) / 2,
\* compared here on both sides times two (exact, no rounding)
BreakevenDue(d, t, i) ==
    /\ breakeven_at_tp1
    /\ IF direction = "long"
       THEN /\ 2 * d[i].high >= 2 * t.entry_price + (t.take_profit - t.entry_price)
            /\ t.stop_loss < t.entry_price
       ELSE /\ 2 * d[i].low <= 2 * t.entry_price - (t.entry_price - t.take_profit)
            /\ t.stop_loss > t.entry_price

\* check_exit with the stop and target tests ahead of the time test
check_exit_time_last(d, it, ct, i) ==
    IF ~it \/ ct = {}
    THEN [should_exit |-> FALSE, trade |-> ct]
    ELSE LET t == Some(ct)
         IN  IF StopHit(d, t, i)
             THEN [should_exit |-> TRUE, exit_reason |-> "stop_loss",
                   exit_price |-> t.stop_loss, trade |-> ct]
             ELSE IF TargetHit(d, t, i)
             THEN [should_exit |-> TRUE, exit_reason |-> "take_profit",
                   exit_price |-> t.take_profit, trade |-> ct]
             ELSE IF TimeExitDue(t, i)
             THEN [should_exit |-> TRUE, exit_reason |-> "time_exit",
                   exit_price |-> d[i].close, trade |-> ct]
             ELSE IF BreakevenDue(d, t, i)
             THEN [should_exit |-> FALSE,
                   trade |-> {[t EXCEPT !.stop_loss = t.entry_price]}]
             ELSE [should_exit |-> FALSE, trade |-> ct]

\* check_exit(idx): the returned tuple, and the trade as check_exit leaves it
check_exit(d, it, ct, i) ==
    IF ~it \/ ct = {}
    THEN [should_exit |-> FALSE, trade |-> ct]
    ELSE LET t == Some(ct)
         IN  IF TimeExitDue(t, i)
             THEN [should_exit |-> TRUE, exit_reason |-> "time_exit",
                   exit_price |-> d[i].close, trade |-> ct]
             ELSE IF StopHit(d, t, i)
             THEN [should_exit |-> TRUE, exit_reason |-> "stop_loss",
                   exit_price |-> t.stop_loss, trade |-> ct]
             ELSE IF TargetHit(d, t, i)
             THEN [should_exit |-> TRUE, exit_reason |-> "take_profit",
                   exit_price |-> t.take_profit, trade |-> ct]
             ELSE IF BreakevenDue(d, t, i)
             THEN [should_exit |-> FALSE,
                   trade |-> {[t EXCEPT !.stop_loss = t.entry_price]}]
             ELSE [should_exit |-> FALSE, trade |-> ct]

\* the minimum over a slice that leaves out its last bar
SliceMinExclusive(d, col, a, b) ==
    LET vals == {d[j][col] : j \in a..(IF b > a THEN b - 1 ELSE a)}
    IN  CHOOSE m \in vals : \A v \in vals : m <= v

\* trade_slice[col].min() and .max() over the bars a .. b of the series
SliceMin(d, col, a, b) ==
    LET vals == {d[j][col] : j \in a..b}
    IN  CHOOSE m \in vals : \A v \in vals : m <= v

SliceMax(d, col, a, b) ==
    LET vals == {d[j][col] : j \in a..b}
    IN  CHOOSE m \in vals : \A v \in vals : m >= v

\* calculate_mae_mfe(trade) for a trade with exit_idx set: <<mae, mfe>>, each
\* a percentage of the entry price kept as the quotient num / den
calculate_mae_mfe(d, t, exit_idx) ==
    LET lo == SliceMin(d, "low", t.entry_idx, exit_idx)
        hi == SliceMax(d, "high", t.entry_idx, exit_idx)
    IN  IF direction = "long"
        THEN <<[num |-> (lo - t.entry_price) * 100, den |-> t.entry_price],
               [num |-> (hi - t.entry_price) * 100, den |-> t.entry_price]>>
        ELSE <<[num |-> (t.entry_price - hi) * 100, den |-> t.entry_price],
               [num |-> (t.entry_price - lo) * 100, den |-> t.entry_price]>>

\* the assignments that close a trade at bar i (run, both closing places)
CloseTrade(d, t, i, reason, price) ==
    LET mm == calculate_mae_mfe(d, t, i)
    IN  [entry_idx |-> t.entry_idx, entry_price |-> t.entry_price,
         direction |-> t.direction, stop_loss |-> t.stop_loss,
         take_profit |-> t.take_profit,
         exit_idx |-> i, exit_price |-> price, exit_reason |-> reason,
         bars_held |-> i - t.entry_idx,
         pnl |-> IF direction = "long" THEN price - t.entry_price
                                       ELSE t.entry_price - price,
         mae |-> mm[1], mfe |-> mm[2]]

\* the engine's mutable state as one record
EngineState == [in_trade |-> in_trade, current_trade |-> current_trade,
                trades |-> trades, opened |-> opened]

\* main loop, "Check for exit if in trade"
ExitPhase(d, s, i) ==
    IF s.in_trade
    THEN LET ex == check_exit(d, s.in_trade, s.current_trade, i)
         IN  IF ex.should_exit /\ ex.trade # {}
             THEN [s EXCEPT !.trades = Append(@, CloseTrade(d, Some(ex.trade), i,
                                                 ex.exit_reason, ex.exit_price)),
                            !.in_trade = FALSE,
                            !.current_trade = {}]
             ELSE [s EXCEPT !.current_trade = ex.trade]
    ELSE s

\* the entry test without the test of in_trade
ShouldEnterWhileOpen(sig, it, i) == sig[i]

\* the entry test of the main loop
ShouldEnter(sig, it, i) == ~it /\ sig[i]

\* main loop, "Check for new entry if not in trade"
EntryPhase(d, sig, s, i) ==
    IF ShouldEnter(sig, s.in_trade, i)
    THEN [s EXCEPT !.current_trade = {NewTrade(d, i)},
                   !.in_trade = TRUE,
                   !.opened = Append(@, i)]
    ELSE s

\* the body of the main loop with the entry step ahead of the exit step
BarStepEntryFirst(d, sig, s, i) == ExitPhase(d, EntryPhase(d, sig, s, i), i)

\* the body of the main loop for bar i
BarStep(d, sig, s, i) == EntryPhase(d, sig, ExitPhase(d, s, i), i)

\* one iteration of the main loop of run, on the next row of the series
RunBar ==
    /\ pc = "loop"
    /\ SignalHasRow(idx)
    /\ \E row \in NextRows(idx) :
          LET d == WithRow(df, row.bar)
              sig == WithRow(entry_signals, row.signal)
              s == BarStep(d, sig, EngineState, idx)
          IN  /\ df' = d
              /\ entry_signals' = sig
              /\ trades' = s.trades
              /\ in_trade' = s.in_trade
              /\ current_trade' = s.current_trade
              /\ opened' = s.opened
    /\ idx' = idx + 1
    /\ UNCHANGED <<params, pc, summary>>

\* the end-of-data test of a run that leaves the last position open
OpenAtEndNever(it, ct) == FALSE

\* the end-of-data test after the loop
OpenAtEnd(it, ct) == it /\ ct # {}

\* run after the loop: close any open trade at the last bar, return
RunEnd ==
    /\ pc = "loop"
    /\ SeriesEndsAt(idx)
    /\ signals_given.extent = "shorter" => idx > signals_given.rows
    /\ IF OpenAtEnd(in_trade, current_trade)
       THEN LET closed == CloseTrade(df, Some(current_trade), NumBars - 1,
                                     "end_of_data", df[NumBars - 1].close)
            IN  /\ trades' = Append(trades, closed)
                /\ current_trade' = {closed}
       ELSE UNCHANGED <<trades, current_trade>>
    /\ pc' = "done"
    /\ UNCHANGED <<params, df, entry_signals, in_trade, idx, opened, summary>>

\* run before the loop: entry_conditions(df) is called, and a value that is not
\* a Series is made one over df.index, which pandas refuses (ValueError) when
\* the value's length is not len(df)
RunStart ==
    /\ pc = "start"
    /\ pc' = IF signals_given.form = "sequence" /\ signals_given.extent # "same"
             THEN "raised" ELSE "loop"
    /\ UNCHANGED <<params, df, entry_signals, trades, in_trade, current_trade,
                   idx, opened, summary>>

\* one iteration of the main loop on a bar past the last row of a shorter
\* Series of entry signals: the exit step runs as on any bar; the entry test
\* reads entry_signals.iloc[idx] only when the engine is flat, and that read
\* raises IndexError
RunBarPastSignal ==
    /\ pc = "loop"
    /\ ~SignalHasRow(idx)
    /\ \E row \in NextRows(idx) :
          LET d == WithRow(df, row.bar)
              s == ExitPhase(d, EngineState, idx)
          IN  /\ df' = d
              /\ trades' = s.trades
              /\ in_trade' = s.in_trade
              /\ current_trade' = s.current_trade
              /\ opened' = s.opened
              /\ pc' = IF s.in_trade THEN "loop" ELSE "raised"
    /\ idx' = idx + 1
    /\ UNCHANGED <<params, entry_signals, summary>>

\* run called with entry signals of every type and length: a plain sequence or
\* a Series, as long as the series, shorter or longer
InitMismatch ==
    /\ source = "any"
    /\ signals_given \in
          {g \in [form : {"sequence", "Series"},
                  extent : {"same", "shorter", "longer"},
                  rows : 0..(MaxBars - 1)] :
              g.extent # "shorter" => g.rows = 0}
    /\ direction \in {"long", "short"}
    /\ stop_loss_atr = 1
    /\ take_profit_atr = 1
    /\ max_hold_bars = {}
    /\ breakeven_at_tp1 = FALSE
    /\ df = <<>>
    /\ entry_signals = <<>>
    /\ trades = <<>>
    /\ in_trade = FALSE
    /\ current_trade = {}
    /\ idx = 0
    /\ pc = "start"
    /\ opened = <<>>
    /\ summary = {}
    /\ NoSweep

\* ------------------------------------------------------------------ summary
\* results[results['pnl'] > 0]
winners(results) == SelectSeq(results, LAMBDA t : t.pnl > 0)

\* results[results['pnl'] < 0]
losers(results) == SelectSeq(results, LAMBDA t : t.pnl < 0)

total_wins(results) ==
    IF Len(winners(results)) > 0 THEN SumPnl(winners(results)) ELSE 0

\* total_losses without abs()
total_losses_signed(results) ==
    IF Len(losers(results)) > 0 THEN SumPnl(losers(results)) ELSE 0

total_losses(results) ==
    IF Len(losers(results)) > 0 THEN Abs(SumPnl(losers(results))) ELSE 0

\* profit_factor: a quotient num / den, or infinity
profit_factor(results) ==
    IF total_losses(results) > 0
    THEN [inf |-> FALSE, num |-> total_wins(results), den |-> total_losses(results)]
    ELSE IF total_wins(results) > 0
    THEN [inf |-> TRUE, num |-> 1, den |-> 0]
    ELSE [inf |-> FALSE, num |-> 0, den |-> 1]

\* a float that is a quotient of integers is kept as num / den with den > 0
Zero == [num |-> 0, den |-> 1]

RatAdd(a, b) == [num |-> a.num * b.den + b.num * a.den, den |-> a.den * b.den]

\* results[col].mean() of an integer column
RECURSIVE SumCol(_, _)
SumCol(results, col) ==
    IF results = <<>> THEN 0 ELSE results[1][col] + SumCol(Tail(results), col)

MeanCol(results, col) == [num |-> SumCol(results, col), den |-> Len(results)]

\* results[col].mean() of a column of quotients
RECURSIVE RatSumCol(_, _)
RatSumCol(results, col) ==
    IF results = <<>> THEN Zero
    ELSE RatAdd(results[1][col], RatSumCol(Tail(results), col))

RatMeanCol(results, col) ==
    LET t == RatSumCol(results, col)
    IN  [num |-> t.num, den |-> t.den * Len(results)]

\* results['pnl'].cumsum()
equity_curve(results) ==
    [k \in 1..Len(results) |-> SumPnl(SubSeq(results, 1, k))]

\* equity_curve.expanding().max()
running_max(results) ==
    LET eq == equity_curve(results)
    IN  [k \in 1..Len(results) |->
            CHOOSE m \in {eq[j] : j \in 1..k} : \A j \in 1..k : m >= eq[j]]

\* equity_curve - running_max
drawdown(results) ==
    [k \in 1..Len(results) |-> equity_curve(results)[k] - running_max(results)[k]]

\* drawdown.min()
max_dd(results) ==
    LET dd == drawdown(results)
    IN  CHOOSE m \in {dd[k] : k \in 1..Len(results)} :
            \A k \in 1..Len(results) : m <= dd[k]

\* drawdown.idxmin(): the first row holding the minimum
idxmin(col) ==
    CHOOSE k \in DOMAIN col :
        /\ \A j \in DOMAIN col : col[k] <= col[j]
        /\ \A j \in DOMAIN col : j < k => col[j] > col[k]

\* the peak taken at the end of the table instead of at the trough
peak_at_max_dd_final(results) == running_max(results)[Len(results)]

\* running_max[drawdown.idxmin()]
peak_at_max_dd(results) == running_max(results)[idxmin(drawdown(results))]

\* abs(max_dd / peak_at_max_dd * 100) if peak_at_max_dd != 0 else 0
max_dd_pct(results) ==
    IF peak_at_max_dd(results) # 0
    THEN [num |-> Abs(max_dd(results)) * 100, den |-> Abs(peak_at_max_dd(results))]
    ELSE Zero

create_summary_stats(results) ==
    IF Len(results) = 0
    THEN [total_trades |-> 0, win_rate |-> Zero,
          profit_factor |-> [inf |-> FALSE, num |-> 0, den |-> 1],
          avg_win |-> Zero, avg_loss |-> Zero, max_dd_pct |-> Zero,
          total_pnl |-> 0]
    ELSE [total_trades |-> Len(results),
          winning_trades |-> Len(winners(results)),
          losing_trades |-> Len(losers(results)),
          win_rate |-> [num |-> Len(winners(results)) * 100, den |-> Len(results)],
          profit_factor |-> profit_factor(results),
          avg_win |-> IF Len(winners(results)) > 0
                      THEN MeanCol(winners(results), "pnl") ELSE Zero,
          avg_loss |-> IF Len(losers(results)) > 0
                       THEN MeanCol(losers(results), "pnl") ELSE Zero,
          max_dd |-> max_dd(results),
          max_dd_pct |-> max_dd_pct(results),
          total_pnl |-> SumPnl(results),
          avg_pnl_per_trade |-> MeanCol(results, "pnl")]

\* trades_df['exit_reason'].value_counts().to_dict()
exit_reasons(results) ==
    [r \in {results[k].exit_reason : k \in 1..Len(results)} |->
        Cardinality({k \in 1..Len(results) : results[k].exit_reason = r})]

\* BacktestEngine.get_summary
get_summary(results) ==
    IF Len(results) = 0
    THEN [total_trades |-> 0, win_rate |-> Zero,
          profit_factor |-> [inf |-> FALSE, num |-> 0, den |-> 1],
          max_dd_pct |-> Zero, total_pnl |-> 0]
    ELSE LET st == create_summary_stats(results)
             more == [avg_bars_held |-> MeanCol(results, "bars_held"),
                      avg_mae |-> RatMeanCol(results, "mae"),
                      avg_mfe |-> RatMeanCol(results, "mfe"),
                      exit_reasons |-> exit_reasons(results)]
         IN  [k \in DOMAIN st \cup DOMAIN more |->
                 IF k \in DOMAIN more THEN more[k] ELSE st[k]]

GetSummary ==
    /\ pc = "done"
    /\ summary' = {get_summary(trades)}
    /\ pc' = "summarized"
    /\ UNCHANGED <<params, df, entry_signals, trades, in_trade, current_trade, idx, opened>>

\* the rows of a finished run's trade table, as far as the summary reads them:
\* every pnl in -MaxPnl .. MaxPnl on an entry price of 100, held one or two
\* bars, with the excursions of a trade that touched both ends of that range
TradeRows ==
    {[pnl |-> p, bars_held |-> b,
      exit_reason |-> IF p > 0 THEN "take_profit"
                      ELSE IF p < 0 THEN "stop_loss" ELSE "time_exit",
      mae |-> [num |-> (-MaxPnl) * 100, den |-> 100],
      mfe |-> [num |-> MaxPnl * 100, den |-> 100]] :
        p \in (-MaxPnl)..MaxPnl, b \in 1..2}

\* trade tables of up to MaxTrades rows, as left by a finished run
InitSummary ==
    /\ \E n \in 0..MaxTrades : trades \in [1..n -> TradeRows]
    /\ source = "any"
    /\ signals_given = Aligned
    /\ df = <<>>
    /\ entry_signals = <<>>
    /\ direction = "long"
    /\ stop_loss_atr = 1
    /\ take_profit_atr = 1
    /\ max_hold_bars = {}
    /\ breakeven_at_tp1 = FALSE
    /\ in_trade = FALSE
    /\ current_trade = {}
    /\ idx = 0
    /\ pc = "done"
    /\ opened = <<>>
    /\ summary = {}
    /\ NoSweep

\* ------------------------------------------------------------------ optimizer
\* config.get('filters.min_trades', 10)
min_trades == 10

\* config.get('objectives.min_profit_factor', 1.25)
min_profit_factor == [inf |-> FALSE, num |-> 125, den |-> 100]

\* config.get('objectives.max_drawdown_pct', 15.0)
max_drawdown_pct == [num |-> 15, den |-> 1]

\* a < b, a = b on floats kept as quotients
RatLess(a, b) == a.num * b.den < b.num * a.den

RatEq(a, b) == a.num * b.den = b.num * a.den

\* a < b, a = b on profit factors, which may be float('inf')
PfLess(a, b) == ~a.inf /\ (b.inf \/ a.num * b.den < b.num * a.den)

PfEq(a, b) ==
    IF a.inf \/ b.inf THEN a.inf /\ b.inf ELSE a.num * b.den = b.num * a.den

\* the summary get_summary gives for a trade table of n > 0 rows, as far as
\* _evaluate_combination reads it
RanSummary(n, pf, wr, dd) ==
    [total_trades |-> n, win_rate |-> wr, profit_factor |-> pf, max_dd_pct |-> dd,
     total_pnl |-> n, avg_pnl_per_trade |-> [num |-> n, den |-> n],
     avg_bars_held |-> [num |-> n, den |-> n],
     avg_mae |-> [num |-> -100, den |-> 100], avg_mfe |-> [num |-> 100, den |-> 100]]

Ran(n, pf, wr, dd) == [raises |-> FALSE, summary |-> RanSummary(n, pf, wr, dd)]

\* what simulating one candidate can give: an exception anywhere between
\* create_pattern_strategy and get_summary; a run without trades; or a summary.
\* The summaries stand on, just below and just above each admission
\* threshold, and differ in each of the four ranking keys; one has no losing
\* trade (unbounded profit factor, hence no drawdown).
Outcomes ==
    {[raises |-> TRUE, summary |-> get_summary(<<>>)],
     [raises |-> FALSE, summary |-> get_summary(<<>>)]}
    \cup {Ran(n, [inf |-> FALSE, num |-> pf, den |-> 4], [num |-> wr, den |-> 1],
              [num |-> 15, den |-> 1]) :
              n \in {10, 11}, pf \in {5, 8}, wr \in {50, 60}}
    \cup {Ran(10, [inf |-> FALSE, num |-> 5, den |-> 4], [num |-> 50, den |-> 1],
              [num |-> 14, den |-> 1]),
          Ran(10, [inf |-> TRUE, num |-> 1, den |-> 0], [num |-> 100, den |-> 1], Zero),
          Ran(9, [inf |-> FALSE, num |-> 5, den |-> 4], [num |-> 50, den |-> 1],
              [num |-> 15, den |-> 1]),
          Ran(9, [inf |-> FALSE, num |-> 6, den |-> 5], [num |-> 50, den |-> 1],
              [num |-> 16, den |-> 1]),
          Ran(10, [inf |-> FALSE, num |-> 6, den |-> 5], [num |-> 50, den |-> 1],
              [num |-> 16, den |-> 1]),
          Ran(10, [inf |-> FALSE, num |-> 5, den |-> 4], [num |-> 50, den |-> 1],
              [num |-> 16, den |-> 1])}

\* the result row of a candidate that passed all filters
ResultRow(p, sm) ==
    [params |-> p, trades |-> sm.total_trades, win_rate |-> sm.win_rate,
     profit_factor |-> sm.profit_factor, max_dd_pct |-> sm.max_dd_pct,
     total_pnl |-> sm.total_pnl, avg_pnl_per_trade |-> sm.avg_pnl_per_trade,
     avg_bars_held |-> sm.avg_bars_held, avg_mae |-> sm.avg_mae,
     avg_mfe |-> sm.avg_mfe]

\* _evaluate_combination with the drawdown filter ahead of the profit factor
\* filter
evaluate_combination_dd_first(p, o) ==
    IF o.raises
    THEN <<{}, {[params |-> p, why |-> "error"]}>>
    ELSE IF o.summary.total_trades = 0
    THEN <<{}, {[params |-> p, why |-> "no_trades", trades |-> 0]}>>
    ELSE LET sm == o.summary
         IN  IF sm.total_trades < min_trades
             THEN <<{}, {[params |-> p, why |-> "insufficient_trades",
                          trades |-> sm.total_trades]}>>
             ELSE IF RatLess(max_drawdown_pct, sm.max_dd_pct)
             THEN <<{}, {[params |-> p, why |-> "dd_fail", dd |-> sm.max_dd_pct,
                          trades |-> sm.total_trades]}>>
             ELSE IF PfLess(sm.profit_factor, min_profit_factor)
             THEN <<{}, {[params |-> p, why |-> "pf_fail", pf |-> sm.profit_factor,
                          trades |-> sm.total_trades]}>>
             ELSE <<{ResultRow(p, sm)}, {}>>

\* _evaluate_combination with an exception swallowed without a diagnostic
evaluate_combination_silent(p, o) ==
    IF o.raises
    THEN <<{}, {}>>
    ELSE IF o.summary.total_trades = 0
    THEN <<{}, {[params |-> p, why |-> "no_trades", trades |-> 0]}>>
    ELSE LET sm == o.summary
         IN  IF sm.total_trades < min_trades
             THEN <<{}, {[params |-> p, why |-> "insufficient_trades",
                          trades |-> sm.total_trades]}>>
             ELSE IF PfLess(sm.profit_factor, min_profit_factor)
             THEN <<{}, {[params |-> p, why |-> "pf_fail", pf |-> sm.profit_factor,
                          trades |-> sm.total_trades]}>>
             ELSE IF RatLess(max_drawdown_pct, sm.max_dd_pct)
             THEN <<{}, {[params |-> p, why |-> "dd_fail", dd |-> sm.max_dd_pct,
                          trades |-> sm.total_trades]}>>
             ELSE <<{ResultRow(p, sm)}, {}>>

\* _evaluate_combination(params): <<result, diagnostic>>, each Optional, for a
\* candidate whose simulation gave o.  len(trades_df) is the summary's
\* total_trades.
evaluate_combination(p, o) ==
    IF o.raises
    THEN <<{}, {[params |-> p, why |-> "error"]}>>
    ELSE IF o.summary.total_trades = 0
    THEN <<{}, {[params |-> p, why |-> "no_trades", trades |-> 0]}>>
    ELSE LET sm == o.summary
         IN  IF sm.total_trades < min_trades
             THEN <<{}, {[params |-> p, why |-> "insufficient_trades",
                          trades |-> sm.total_trades]}>>
             ELSE IF PfLess(sm.profit_factor, min_profit_factor)
             THEN <<{}, {[params |-> p, why |-> "pf_fail", pf |-> sm.profit_factor,
                          trades |-> sm.total_trades]}>>
             ELSE IF RatLess(max_drawdown_pct, sm.max_dd_pct)
             THEN <<{}, {[params |-> p, why |-> "dd_fail", dd |-> sm.max_dd_pct,
                          trades |-> sm.total_trades]}>>
             ELSE <<{ResultRow(p, sm)}, {}>>

\* the two appends with the diagnostic dropped
CollectResultOnly(lists, ret) ==
    [results |-> IF ret[1] # {} THEN Append(lists.results, Some(ret[1]))
                 ELSE lists.results,
     diagnostics |-> lists.diagnostics]

\* optimize, both modes: append the result if there is one, and the diagnostic
\* if there is one
Collect(lists, ret) ==
    [results |-> IF ret[1] # {} THEN Append(lists.results, Some(ret[1]))
                 ELSE lists.results,
     diagnostics |-> IF ret[2] # {} THEN Append(lists.diagnostics, Some(ret[2]))
                     ELSE lists.diagnostics]

\* pool.map's list with the return values in reverse
pool_map_reversed(m, n) == [k \in 1..n |-> m[n + 1 - k]]

\* the list pool.map returns: the return values in the order of param_grid,
\* whichever worker computed them and whenever
pool_map(m, n) == [k \in 1..n |-> m[k]]

\* the loop over pool.map's list, "Separate results and diagnostics"
RECURSIVE CollectAll(_, _)
CollectAll(lists, rets) ==
    IF rets = <<>> THEN lists
    ELSE CollectAll(Collect(lists, Head(rets)), Tail(rets))

\* row a stands ahead of row b with the drawdown key descending
RankedBeforeDdDescending(a, b) ==
    \/ a.trades > b.trades
    \/ /\ a.trades = b.trades
       /\ \/ PfLess(b.profit_factor, a.profit_factor)
          \/ /\ PfEq(a.profit_factor, b.profit_factor)
             /\ \/ RatLess(b.win_rate, a.win_rate)
                \/ /\ RatEq(a.win_rate, b.win_rate)
                   /\ RatLess(b.max_dd_pct, a.max_dd_pct)

\* row a stands ahead of row b by the keys of sort_values: trades descending,
\* profit_factor descending, win_rate descending, max_dd_pct ascending
RankedBefore(a, b) ==
    \/ a.trades > b.trades
    \/ /\ a.trades = b.trades
       /\ \/ PfLess(b.profit_factor, a.profit_factor)
          \/ /\ PfEq(a.profit_factor, b.profit_factor)
             /\ \/ RatLess(b.win_rate, a.win_rate)
                \/ /\ RatEq(a.win_rate, b.win_rate)
                   /\ RatLess(a.max_dd_pct, b.max_dd_pct)

\* the row placed ahead of the rows it ties with
InsertRankedAheadOfTies(sorted, row) ==
    LET k == Cardinality({j \in 1..Len(sorted) : RankedBefore(sorted[j], row)})
    IN  SubSeq(sorted, 1, k) \o <<row>> \o SubSeq(sorted, k + 1, Len(sorted))

\* a multi-key sort_values keeps rows with equal keys in their given order:
\* the row goes behind every row it does not stand ahead of
InsertRanked(sorted, row) ==
    LET k == Cardinality({j \in 1..Len(sorted) : ~RankedBefore(row, sorted[j])})
    IN  SubSeq(sorted, 1, k) \o <<row>> \o SubSeq(sorted, k + 1, Len(sorted))

\* pd.DataFrame(rows).sort_values([...]).reset_index(drop=True)
RECURSIVE sort_values(_)
sort_values(rows) ==
    IF rows = <<>> THEN <<>>
    ELSE InsertRanked(sort_values(SubSeq(rows, 1, Len(rows) - 1)), rows[Len(rows)])

\* optimize up to the choice of mode: generate_parameter_grid gives up to
\* MaxGrid distinct candidates, here numbered in grid order; an empty grid
\* returns an empty table at once
\* the outcomes the backtest of candidate k may have: any, once; the
\* outcome it had whenever it is evaluated again
OutcomesOf(k) == IF k \in DOMAIN backtest THEN {backtest[k]} ELSE Outcomes

OptimizeStart ==
    /\ opt_pc = "new"
    /\ \E n \in 0..MaxGrid :
          /\ param_grid' = [k \in 1..n |-> k]
          /\ IF n = 0
             THEN returned' = {<<>>} /\ opt_pc' = "returned"
             ELSE /\ returned' = returned
                  /\ opt_pc' = IF use_multiprocessing THEN "map" ELSE "loop"
    /\ UNCHANGED <<engine, beside, use_multiprocessing, backtest, mapped, self_results,
                   self_diagnostics, saved, opt_i>>

\* one task of pool.map: some worker evaluates some candidate not yet
\* evaluated
WorkerEvaluate ==
    /\ opt_pc = "map"
    /\ \E k \in (1..Len(param_grid)) \ DOMAIN mapped :
       \E o \in OutcomesOf(k) :
          /\ backtest' = backtest @@ (k :> o)
          /\ mapped' = mapped @@ (k :> evaluate_combination(param_grid[k], o))
    /\ UNCHANGED <<engine, beside, use_multiprocessing, param_grid, self_results,
                   self_diagnostics, returned, saved, opt_i, opt_pc>>

\* pool.map returns once every task has completed; the parent then separates
\* results and diagnostics
MapReturn ==
    /\ opt_pc = "map"
    /\ DOMAIN mapped = 1..Len(param_grid)
    /\ LET lists == CollectAll([results |-> self_results,
                                diagnostics |-> self_diagnostics],
                               pool_map(mapped, Len(param_grid)))
       IN  /\ self_results' = lists.results
           /\ self_diagnostics' = lists.diagnostics
    /\ opt_pc' = "finish"
    /\ UNCHANGED <<engine, beside, use_multiprocessing, param_grid, backtest, mapped,
                   returned, saved, opt_i>>

\* one iteration of the sequential loop
SequentialStep ==
    /\ opt_pc = "loop"
    /\ \E o \in OutcomesOf(opt_i) :
          LET lists == Collect([results |-> self_results,
                                diagnostics |-> self_diagnostics],
                               evaluate_combination(param_grid[opt_i], o))
          IN  /\ backtest' = backtest @@ (opt_i :> o)
              /\ self_results' = lists.results
              /\ self_diagnostics' = lists.diagnostics
    /\ opt_i' = opt_i + 1
    /\ opt_pc' = IF opt_i = Len(param_grid) THEN "finish" ELSE "loop"
    /\ UNCHANGED <<engine, beside, use_multiprocessing, param_grid, mapped, returned, saved>>

\* optimize after the sweep: an empty table when nothing passed, else the
\* results ranked
OptimizeFinish ==
    /\ opt_pc = "finish"
    /\ returned' = IF Len(self_results) = 0 THEN {<<>>}
                   ELSE {sort_values(self_results)}
    /\ opt_pc' = "returned"
    /\ UNCHANGED <<engine, beside, use_multiprocessing, param_grid, backtest, mapped,
                   self_results, self_diagnostics, saved, opt_i>>

\* save_results after optimize: nothing is written when there are no results,
\* else self.results and self.diagnostics are written as they stand
SaveResults ==
    /\ opt_pc = "returned"
    /\ saved' = IF Len(self_results) = 0 THEN saved
                ELSE {[results |-> self_results, diagnostics |-> self_diagnostics]}
    /\ opt_pc' = "saved"
    /\ UNCHANGED <<engine, beside, use_multiprocessing, param_grid, backtest, mapped,
                   self_results, self_diagnostics, returned, opt_i>>

\* an optimizer whose lists are emptied by every call
results_cleared_on_call(list) == <<>>

\* self.results and self.diagnostics as optimize() finds them on entry:
\* they are assigned in __init__ only
results_on_call(list) == list

\* optimize() called again on the same optimizer after it returned
OptimizeAgain ==
    /\ opt_pc = "returned"
    /\ Len(calls) + 1 < MaxCalls
    /\ calls' = Append(calls, [grid |-> Len(param_grid), results |-> self_results,
                               diagnostics |-> self_diagnostics, returned |-> returned])
    /\ self_results' = results_on_call(self_results)
    /\ self_diagnostics' = results_on_call(self_diagnostics)
    /\ param_grid' = <<>>
    /\ mapped' = <<>>
    /\ opt_i' = 1
    /\ opt_pc' = "new"
    /\ UNCHANGED <<engine, generator, builder, worker, use_multiprocessing, backtest,
                   returned, saved>>

\* the backtest outcomes of the optimizer called repeatedly: an error, and
\* two summaries that pass every threshold
RepeatOutcomes ==
    {[raises |-> TRUE, summary |-> get_summary(<<>>)],
     Ran(10, [inf |-> FALSE, num |-> 5, den |-> 4], [num |-> 50, den |-> 1],
         [num |-> 15, den |-> 1]),
     Ran(11, [inf |-> FALSE, num |-> 8, den |-> 4], [num |-> 60, den |-> 1],
         [num |-> 15, den |-> 1])}

\* a new optimizer on which optimize() is called repeatedly; a candidate's
\* backtest is deterministic, so its outcome is the same at every call
InitRepeat ==
    /\ use_multiprocessing \in BOOLEAN
    /\ param_grid = <<>>
    /\ backtest \in [1..MaxGrid -> RepeatOutcomes]
    /\ mapped = <<>>
    /\ self_results = <<>>
    /\ self_diagnostics = <<>>
    /\ returned = {}
    /\ saved = {}
    /\ opt_i = 1
    /\ opt_pc = "new"
    /\ BesideIdle
    /\ source = "any"
    /\ signals_given = Aligned
    /\ direction = "long"
    /\ stop_loss_atr = 1
    /\ take_profit_atr = 1
    /\ max_hold_bars = {}
    /\ breakeven_at_tp1 = FALSE
    /\ EngineInit

\* a new optimizer, about to sweep in either mode
InitOptimizer ==
    /\ use_multiprocessing \in BOOLEAN
    /\ OptimizerInit
    /\ BesideIdle
    /\ source = "any"
    /\ signals_given = Aligned
    /\ direction = "long"
    /\ stop_loss_atr = 1
    /\ take_profit_atr = 1
    /\ max_hold_bars = {}
    /\ breakeven_at_tp1 = FALSE
    /\ EngineInit

\* no engine constructed by these components, and no sweep
EngineIdle ==
    /\ use_multiprocessing = FALSE
    /\ OptimizerInit
    /\ source = "any"
    /\ signals_given = Aligned
    /\ direction = "long"
    /\ stop_loss_atr = 1
    /\ take_profit_atr = 1
    /\ max_hold_bars = {}
    /\ breakeven_at_tp1 = FALSE
    /\ EngineInit

\* ------------------------------------------------------------------ grid generator
\* the ten ranges in the order of product(...), each with the key its values
\* get in a parameter set
RangeNames ==
    <<"stop_loss_atr_range", "take_profit_atr_range", "max_hold_bars_range",
      "trend_conditions", "rsi_min_range", "adx_min_range", "atr_pct_min_range",
      "atr_pct_max_range", "ema_proximity_range", "volume_ratio_range">>

\* params = {...} of a combination of one value per range
ParamsOf(combo) ==
    [stop_loss_atr |-> combo[1], take_profit_atr |-> combo[2],
     max_hold_bars |-> combo[3], trend_condition |-> combo[4],
     rsi_min |-> combo[5], adx_min |-> combo[6], atr_min |-> combo[7],
     atr_max |-> combo[8], ema_proximity |-> combo[9], volume_min |-> combo[10]]

\* itertools.product of the lists ls: every combination, the last list
\* varying fastest
RECURSIVE Product(_)
RECURSIVE WithEach(_, _)
WithEach(vals, rest) ==
    IF vals = <<>> THEN <<>>
    ELSE [k \in 1..Len(rest) |-> <<Head(vals)>> \o rest[k]] \o WithEach(Tail(vals), rest)

Product(ls) ==
    IF ls = <<>> THEN << <<>> >>
    ELSE WithEach(Head(ls), Product(Tail(ls)))

\* combinations_iterator as a list
Combinations(ranges) == Product([k \in 1..Len(RangeNames) |-> ranges[RangeNames[k]]])

\* the ATR filter with a strict comparison
PrunedAtrStrict(p) ==
    /\ p.atr_min # {}
    /\ p.atr_max # {}
    /\ Some(p.atr_min) > Some(p.atr_max)

\* "Filter out invalid combinations": both ATR bounds set, lower >= upper
PrunedAtr(p) ==
    /\ p.atr_min # {}
    /\ p.atr_max # {}
    /\ Some(p.atr_min) >= Some(p.atr_max)

\* the RSI filter switched off
PrunedRsiNever(p) == FALSE

\* "Filter out RSI >= 70"
PrunedRsi(p) == p.rsi_min # {} /\ Some(p.rsi_min) >= 70

\* the early stop at the cap itself
GridFullAtCap(n, max_combos) == n >= max_combos

\* "Stop early if we have enough valid combinations"
GridFull(n, max_combos) == n >= max_combos * 2

\* np.random.choice(n, size=k, replace=False): every list of k distinct
\* positions of a list of n entries, positions counted from 1
Choices(n, k) ==
    {c \in [1..k -> 1..n] : \A i \in 1..k : \A j \in 1..k : c[i] = c[j] => i = j}

\* one iteration of the loop over combinations_iterator
GridStep ==
    /\ generator.pc = "loop"
    /\ generator.total_checked < Len(Combinations(generator.ranges))
    /\ LET p == ParamsOf(Combinations(generator.ranges)[generator.total_checked + 1])
           kept == Append(generator.param_grid, p)
       IN  generator' =
             IF PrunedAtr(p) \/ PrunedRsi(p)
             THEN [generator EXCEPT !.total_checked = @ + 1]
             ELSE [generator EXCEPT !.total_checked = @ + 1,
                                    !.param_grid = kept,
                                    !.pc = IF GridFull(Len(kept), generator.max_combos)
                                           THEN "sample" ELSE "loop"]
    /\ UNCHANGED <<engine, optimizer, calls, builder, worker>>

\* the loop ends with the iterator exhausted
GridLoopExit ==
    /\ generator.pc = "loop"
    /\ generator.total_checked = Len(Combinations(generator.ranges))
    /\ generator' = [generator EXCEPT !.pc = "sample"]
    /\ UNCHANGED <<engine, optimizer, calls, builder, worker>>

\* after the loop: "Randomly sample if we have too many", return
GridReturn ==
    /\ generator.pc = "sample"
    /\ IF Len(generator.param_grid) > generator.max_combos
       THEN \E indices \in Choices(Len(generator.param_grid), generator.max_combos) :
               generator' =
                 [generator EXCEPT !.returned =
                     [i \in 1..generator.max_combos |-> generator.param_grid[indices[i]]],
                                   !.pc = "returned"]
       ELSE generator' = [generator EXCEPT !.returned = generator.param_grid,
                                           !.pc = "returned"]
    /\ UNCHANGED <<engine, optimizer, calls, builder, worker>>

\* the configurations explored: each range empty or holding one or two
\* values, the RSI and ATR ranges with values on both sides of the two
\* filters; None is {}
RangeChoices ==
    [stop_loss_atr_range : {<<>>, <<1>>, <<1, 2>>},
     take_profit_atr_range : {<<>>, <<2>>},
     max_hold_bars_range : {<<>>, <<{}>>},
     trend_conditions : {<<>>, <<{}>>},
     rsi_min_range : {<<>>, <<{}, {50}>>, <<{50}, {70}>>, <<{70}, {75}>>},
     adx_min_range : {<<>>, <<{}>>},
     atr_pct_min_range : {<<>>, <<{}, {1}>>, <<{1}, {2}>>},
     atr_pct_max_range : {<<>>, <<{}, {2}>>, <<{1}, {2}>>},
     ema_proximity_range : {<<>>, <<{}>>},
     volume_ratio_range : {<<>>, <<{}>>}]

\* generate_parameter_grid entered with any of these ranges and a cap of
\* 1 .. MaxCap
InitGenerator ==
    /\ \E r \in RangeChoices : \E cap \in 1..MaxCap :
          generator = [ranges |-> r, max_combos |-> cap, total_checked |-> 0,
                       param_grid |-> <<>>, pc |-> "loop", returned |-> <<>>]
    /\ builder = BuilderIdle
    /\ worker = WorkerIdle
    /\ calls = <<>>
    /\ EngineIdle

\* ------------------------------------------------------------------ strategy builder
\* the frames a builder is constructed on: three bars, one pattern column
\* and the RSI
BuilderFrames ==
    {[pattern_x |-> <<1, 0, 1>>, rsi_14 |-> <<50, 60, 60>>],
     [pattern_x |-> <<1, 1, 1>>, rsi_14 |-> <<50, 60, 60>>]}

\* the filter methods, by the prefix each gives its description
FilterMethods == {"Trend", "Momentum", "Strength", "Volatility", "Proximity", "Volume"}

\* the expressions passed to the filter methods: a comparison of a column
\* of the frame, of a column the frame lacks, and one that does not parse
FilterExpressions ==
    {[field |-> "rsi_14", op |-> ">=", value |-> 55],
     [field |-> "adx_14", op |-> ">=", value |-> 55],
     [field |-> "rsi_14", op |-> "=>", value |-> 55]}

\* the Series passed to add_custom_filter, on the index of the frame
CustomConditions == {<<TRUE, TRUE, FALSE>>, <<FALSE, TRUE, TRUE>>}

\* df.eval raising on unknown names only, an unparsable comparison read as <
EvalRaisesOnNamesOnly(d, e) == e.field \notin DOMAIN d

\* df.eval(condition_str) raises: unknown name, or a syntax error
EvalRaises(d, e) == e.field \notin DOMAIN d \/ e.op \notin {">=", "<"}

\* df.eval(condition_str) of a comparison: one boolean per bar
Eval(d, e) ==
    [b \in 1..Len(d[e.field]) |->
        IF e.op = ">=" THEN d[e.field][b] >= e.value ELSE d[e.field][b] < e.value]

\* add_condition: append the condition, then its description
add_condition(b, condition, text) ==
    [b EXCEPT !.conditions = Append(@, condition), !.description = Append(@, text)]

\* what a call leaves in the record of the last call
Called(b, call, arg, raised, result) ==
    [call |-> call, arg |-> arg, raised |-> raised, result |-> result,
     conditions |-> b.conditions, description |-> b.description]

\* add_pattern(pattern_column)
AddPattern ==
    /\ builder.df # <<>>
    /\ \E col \in {"pattern_x", "pattern_y"} :
          IF col \notin DOMAIN builder.df
          THEN builder' = [builder EXCEPT !.last = Called(builder, "add_pattern", col, TRUE, <<>>)]
          ELSE /\ Len(builder.conditions) < MaxConditions
               /\ builder' =
                    [add_condition(builder,
                                   [b \in 1..Len(builder.df[col]) |-> builder.df[col][b] = 1],
                                   <<"Pattern", col>>)
                        EXCEPT !.last = Called(builder, "add_pattern", col, FALSE, <<>>)]
    /\ UNCHANGED <<engine, optimizer, calls, generator, worker>>

\* add_trend_filter, add_momentum_filter, add_strength_filter,
\* add_volatility_filter, add_proximity_filter, add_volume_filter
AddFilter ==
    /\ builder.df # <<>>
    /\ \E m \in FilterMethods : \E e \in FilterExpressions :
          IF EvalRaises(builder.df, e)
          THEN builder' = [builder EXCEPT !.last = Called(builder, m, e, TRUE, <<>>)]
          ELSE /\ Len(builder.conditions) < MaxConditions
               /\ builder' =
                    [add_condition(builder, Eval(builder.df, e), <<m, e>>)
                        EXCEPT !.last = Called(builder, m, e, FALSE, <<>>)]
    /\ UNCHANGED <<engine, optimizer, calls, generator, worker>>

\* add_custom_filter(condition, description)
AddCustomFilter ==
    /\ builder.df # <<>>
    /\ Len(builder.conditions) < MaxConditions
    /\ \E c \in CustomConditions :
          builder' = [add_condition(builder, c, <<"Custom", c>>)
                         EXCEPT !.last = Called(builder, "add_custom_filter", c, FALSE, <<>>)]
    /\ UNCHANGED <<engine, optimizer, calls, generator, worker>>

\* signal & condition, bar by bar
SeriesAnd(x, y) == [b \in 1..Len(x) |-> x[b] /\ y[b]]

\* signal | condition, bar by bar
SeriesOr(x, y) == [b \in 1..Len(x) |-> x[b] \/ y[b]]

RECURSIVE FoldOr(_, _)
FoldOr(signal, rest) ==
    IF rest = <<>> THEN signal ELSE FoldOr(SeriesOr(signal, Head(rest)), Tail(rest))

\* for condition in rest: signal = signal & condition
RECURSIVE FoldAnd(_, _)
FoldAnd(signal, rest) ==
    IF rest = <<>> THEN signal ELSE FoldAnd(SeriesAnd(signal, Head(rest)), Tail(rest))

\* the entry signal as the OR of the conditions
get_entry_signal_any(conditions) == FoldOr(Head(conditions), Tail(conditions))

\* get_entry_signal on a builder with conditions
get_entry_signal(conditions) == FoldAnd(Head(conditions), Tail(conditions))

\* get_entry_signal()
GetEntrySignal ==
    /\ builder.df # <<>>
    /\ builder' =
         [builder EXCEPT !.last =
            IF Len(builder.conditions) = 0
            THEN Called(builder, "get_entry_signal", <<>>, TRUE, <<>>)
            ELSE Called(builder, "get_entry_signal", <<>>, FALSE,
                        get_entry_signal(builder.conditions))]
    /\ UNCHANGED <<engine, optimizer, calls, generator, worker>>

\* StrategyBuilder(df)
InitBuilder ==
    /\ \E d \in BuilderFrames :
          builder = [df |-> d, conditions |-> <<>>, description |-> <<>>, last |-> <<>>]
    /\ generator = GeneratorIdle
    /\ worker = WorkerIdle
    /\ calls = <<>>
    /\ EngineIdle

\* ------------------------------------------------------------------ worker
\* the series handed to _worker_init: three bars with the pattern column and
\* the RSI, with and without the column the trend condition names
WorkerFrames ==
    {<<[bar |-> [high |-> 2, low |-> 2, close |-> 2, atr |-> 1], pattern_x |-> 1, rsi_14 |-> 60],
       [bar |-> [high |-> 3, low |-> 2, close |-> 3, atr |-> 1], pattern_x |-> 1, rsi_14 |-> 50],
       [bar |-> [high |-> 3, low |-> 1, close |-> 2, atr |-> 1], pattern_x |-> 1, rsi_14 |-> 60]>>,
     <<[bar |-> [high |-> 2, low |-> 2, close |-> 2, atr |-> 1], pattern_x |-> 1, rsi_14 |-> 60, ema_20 |-> 2],
       [bar |-> [high |-> 2, low |-> 1, close |-> 1, atr |-> 1], pattern_x |-> 0, rsi_14 |-> 50, ema_20 |-> 2],
       [bar |-> [high |-> 3, low |-> 1, close |-> 2, atr |-> 1], pattern_x |-> 1, rsi_14 |-> 60, ema_20 |-> 1]>>}

\* the candidates a worker is given
Candidates ==
    [stop_loss_atr : {1}, take_profit_atr : {1}, max_hold_bars : {{}, {1}},
     trend_condition : {{}, {[field |-> "ema_20", op |-> ">=", value |-> 2]}},
     rsi_min : {{}, {55}}]

\* the columns of a series as the builder reads them
Frame(d) ==
    [c \in (DOMAIN d[1]) \ {"bar"} |-> [i \in 1..Len(d) |-> d[i][c]]]

\* the conditions entry_condition adds, in order
EntryConditions(d, pattern, p) ==
    <<[i \in 1..Len(d) |-> Frame(d)[pattern][i] = 1]>>
    \o (IF p.trend_condition # {} THEN <<Eval(Frame(d), Some(p.trend_condition))>> ELSE <<>>)
    \o (IF p.rsi_min # {}
        THEN <<Eval(Frame(d), [field |-> "rsi_14", op |-> ">=", value |-> Some(p.rsi_min)])>>
        ELSE <<>>)

\* entry_condition(df_input) raises
entry_condition_raises(d, pattern, p) ==
    \/ pattern \notin DOMAIN Frame(d)
    \/ p.trend_condition # {} /\ EvalRaises(Frame(d), Some(p.trend_condition))
    \/ p.rsi_min # {} /\ "rsi_14" \notin DOMAIN Frame(d)

\* entry_condition(df_input) of create_pattern_strategy
entry_condition(d, pattern, p) == get_entry_signal(EntryConditions(d, pattern, p))

\* an engine that starts with the trades list of the engine before it
NewEngineKeepingTrades(s) ==
    [in_trade |-> FALSE, current_trade |-> {}, trades |-> s.trades, opened |-> <<>>]

\* BacktestEngine(...): the state of a new engine, whatever engine s the
\* previous call left behind
NewEngine(s) ==
    [in_trade |-> FALSE, current_trade |-> {}, trades |-> <<>>, opened |-> <<>>]

\* _evaluate_combination(params) up to the main loop of run: the entry
\* function is made, an engine is constructed on a copy of _worker_df, and
\* run calls the entry function on that copy
EvaluateStart ==
    /\ worker.pc = "ready"
    /\ Len(worker.evaluated) < MaxEvals
    /\ \E p \in Candidates :
          LET raises == entry_condition_raises(worker.df, worker.pattern, p)
              new == NewEngine(EngineState)
          IN  /\ worker' = [worker EXCEPT
                              !.pc = "running",
                              !.params = p,
                              !.signals = IF raises THEN <<>>
                                          ELSE entry_condition(worker.df, worker.pattern, p)]
              /\ direction' = worker.direction
              /\ stop_loss_atr' = p.stop_loss_atr
              /\ take_profit_atr' = p.take_profit_atr
              /\ max_hold_bars' = p.max_hold_bars
              /\ breakeven_at_tp1' = FALSE
              /\ df' = <<>>
              /\ entry_signals' = <<>>
              /\ trades' = new.trades
              /\ in_trade' = new.in_trade
              /\ current_trade' = new.current_trade
              /\ opened' = new.opened
              /\ idx' = 0
              /\ summary' = {}
              /\ pc' = IF raises THEN "raised" ELSE "loop"
    /\ UNCHANGED <<source, signals_given, optimizer, calls, generator, builder>>

\* _evaluate_combination returns: the outcome is made of the trades of the
\* engine, or is the error diagnostic when the call raised
EvaluateReturn ==
    /\ worker.pc = "running"
    /\ pc \in {"done", "raised"}
    /\ worker' = [worker EXCEPT
                    !.pc = "ready",
                    !.evaluated = Append(@, [params |-> worker.params,
                                             raised |-> (pc = "raised"),
                                             trades |-> IF pc = "raised" THEN <<>> ELSE trades])]
    /\ UNCHANGED <<engine, optimizer, calls, generator, builder>>

\* _worker_init(df, pattern, direction)
InitWorker ==
    /\ \E d \in WorkerFrames : \E dir \in {"long", "short"} :
          worker = [df |-> d, pattern |-> "pattern_x", direction |-> dir,
                    given |-> [df |-> d, pattern |-> "pattern_x", direction |-> dir],
                    pc |-> "ready", params |-> <<>>, signals |-> <<>>,
                    evaluated |-> <<>>]
    /\ generator = GeneratorIdle
    /\ builder = BuilderIdle
    /\ calls = <<>>
    /\ use_multiprocessing = FALSE
    /\ OptimizerInit
    /\ source = "worker"
    /\ signals_given = Aligned
    /\ direction = "long"
    /\ stop_loss_atr = 1
    /\ take_profit_atr = 1
    /\ max_hold_bars = {}
    /\ breakeven_at_tp1 = FALSE
    /\ df = <<>>
    /\ entry_signals = <<>>
    /\ trades = <<>>
    /\ in_trade = FALSE
    /\ current_trade = {}
    /\ idx = 0
    /\ pc = "idle"
    /\ opened = <<>>
    /\ summary = {}

\* ------------------------------------------------------------------ specifications
Next == RunBar \/ RunEnd

\* one run of the engine
Spec == Init /\ [][Next]_vars

\* one run with and without a time limit
TimeLimitSpec == InitTimeLimit /\ [][Next]_vars

SummaryNext == GetSummary

\* get_summary on a finished run's trade table
SummarySpec == InitSummary /\ [][SummaryNext]_vars

MismatchNext == RunStart \/ RunBar \/ RunBarPastSignal \/ RunEnd

\* one run of the engine on entry signals of any type and length
MismatchSpec == InitMismatch /\ [][MismatchNext]_vars

GeneratorNext == GridStep \/ GridLoopExit \/ GridReturn

\* one call of generate_parameter_grid
GeneratorSpec == InitGenerator /\ [][GeneratorNext]_vars

BuilderNext == AddPattern \/ AddFilter \/ AddCustomFilter \/ GetEntrySignal

\* one StrategyBuilder and the calls made on it
BuilderSpec == InitBuilder /\ [][BuilderNext]_vars

WorkerNext == EvaluateStart \/ RunBar \/ RunEnd \/ EvaluateReturn

\* one worker evaluating candidates one after the other
WorkerSpec == InitWorker /\ [][WorkerNext]_vars

OptimizerNext ==
    \/ OptimizeStart
    \/ WorkerEvaluate
    \/ MapReturn
    \/ SequentialStep
    \/ OptimizeFinish
    \/ SaveResults

\* one optimize() on a new optimizer, then save_results()
OptimizerSpec == InitOptimizer /\ [][OptimizerNext]_vars

RepeatNext ==
    \/ OptimizeStart
    \/ WorkerEvaluate
    \/ MapReturn
    \/ SequentialStep
    \/ OptimizeFinish
    \/ OptimizeAgain

\* optimize() called up to MaxCalls times on one optimizer
RepeatSpec == InitRepeat /\ [][RepeatNext]_vars

RunSummaryNext == RunBar \/ RunEnd \/ GetSummary

\* one run of the engine followed by get_summary
RunSummarySpec == Init /\ [][RunSummaryNext]_vars

\* ------------------------------------------------------------------ properties
IsClosed(t) == "exit_idx" \in DOMAIN t

\* the k-th Trade object created by run: closed trades are in self.trades in
\* creation order, the open one is self.current_trade
TradeOf(k) == IF k <= Len(trades) THEN trades[k] ELSE Some(current_trade)

\* trades created and not yet appended to self.trades
OpenCount == Len(opened) - Len(trades)

\* a position opened before bar i is still open when the entry test of bar i runs
PositionHeldThrough(i) ==
    \E k \in 1..Len(opened) :
        /\ opened[k] < i
        /\ \/ k > Len(trades)
           \/ trades[k].exit_idx > i
           \/ trades[k].exit_reason = "end_of_data"

\* stop and target as stated for a trade entered at bar e
StatedStop(e) ==
    IF direction = "long" THEN df[e].close - stop_loss_atr * df[e].atr
                          ELSE df[e].close + stop_loss_atr * df[e].atr

StatedTarget(e) ==
    IF direction = "long" THEN df[e].close + take_profit_atr * df[e].atr
                          ELSE df[e].close - take_profit_atr * df[e].atr

\* bar i reaches price level `level` on the adverse side / on the favourable side
AdverseReached(i, level) ==
    IF direction = "long" THEN df[i].low <= level ELSE df[i].high >= level

FavourableReached(i, level) ==
    IF direction = "long" THEN df[i].high >= level ELSE df[i].low <= level

\* bar i reaches the halfway point between entry bar e's close and its target
HalfwayReached(e, i) ==
    IF direction = "long"
    THEN 2 * df[i].high >= 2 * df[e].close + (StatedTarget(e) - df[e].close)
    ELSE 2 * df[i].low <= 2 * df[e].close - (df[e].close - StatedTarget(e))

\* the stop of a trade entered at bar e that the exit test of bar j uses
StopInForce(e, j) ==
    IF breakeven_at_tp1 /\ \E i \in (e + 1)..(j - 1) : HalfwayReached(e, i)
    THEN df[e].close
    ELSE StatedStop(e)

TimeLimitReached(e, i) == \E m \in max_hold_bars : i - e >= m

FromCheckExit(t) == t.exit_reason \in {"time_exit", "stop_loss", "take_profit"}

\* C1: at most one trade is open at any point of run; trades are opened one
\* after the other's close, and a bar on which an earlier position is still
\* open opens no trade.
C1_AtMostOneOpenTrade ==
    /\ OpenCount \in {0, 1}
    /\ (pc = "loop") => ((OpenCount = 1) <=> in_trade)
    /\ (pc = "loop" /\ in_trade) =>
          /\ current_trade # {}
          /\ ~IsClosed(Some(current_trade))
          /\ Some(current_trade).entry_idx = opened[Len(opened)]
    /\ \A k \in 1..Len(trades) : trades[k].entry_idx = opened[k]
    /\ \A k \in 1..(Len(opened) - 1) : trades[k].exit_idx <= opened[k + 1]
    /\ \A i \in 0..(idx - 1) :
          PositionHeldThrough(i) => \A k \in 1..Len(opened) : opened[k] # i

\* C1 witness: the entry signal was true on a bar through which a position
\* stayed open, and no trade was opened there.
C1_SignalWhileOpen ==
    /\ pc = "loop"
    /\ in_trade
    /\ \E i \in 0..(idx - 1) :
          /\ entry_signals[i]
          /\ PositionHeldThrough(i)
          /\ \A k \in 1..Len(opened) : opened[k] # i

\* C2 (as claimed): every trade of the list has entry_idx < exit_idx <= last
\* bar index.
C2_EntryBeforeExit ==
    \A k \in 1..Len(trades) :
        /\ trades[k].entry_idx < trades[k].exit_idx
        /\ trades[k].exit_idx <= LastIdx

\* C3: the exit recorded for a bar is decided by the first true condition in
\* the order time limit, stop, target; it is booked at the close, the stop or
\* the target respectively; at most one trade is closed by an exit test per bar.
C3_ExitPriority ==
    /\ \A k \in 1..Len(trades) :
          LET t == trades[k]
              i == t.exit_idx
              byTime == TimeLimitReached(t.entry_idx, i)
              byStop == AdverseReached(i, t.stop_loss)
              byTarget == FavourableReached(i, t.take_profit)
          IN  FromCheckExit(t) =>
                /\ byTime \/ byStop \/ byTarget
                /\ t.exit_reason = (IF byTime THEN "time_exit"
                                    ELSE IF byStop THEN "stop_loss"
                                    ELSE "take_profit")
                /\ t.exit_price = (IF byTime THEN df[i].close
                                   ELSE IF byStop THEN t.stop_loss
                                   ELSE t.take_profit)
    /\ \A j, k \in 1..Len(trades) :
          (j # k /\ FromCheckExit(trades[j]) /\ FromCheckExit(trades[k]))
             => trades[j].exit_idx # trades[k].exit_idx

\* C3 witness: a trade closed with time_exit, at the close, on a bar that also
\* reached its target.
C3_TimeExitOverTarget ==
    \E k \in 1..Len(trades) :
        /\ trades[k].exit_reason = "time_exit"
        /\ FavourableReached(trades[k].exit_idx, trades[k].take_profit)
        /\ trades[k].exit_price # trades[k].take_profit

\* C4 (as claimed): no bar index is the exit_idx of one trade and the
\* entry_idx of another trade of the same run.
C4_NoExitAndEntryOnSameBar ==
    \A j \in 1..Len(trades) : \A k \in 1..Len(opened) :
        j # k => trades[j].exit_idx # opened[k]

\* C4 (amended): a position opened at bar i is not tested for exit at bar i:
\* it is still open after that bar and every exit test closes it on a later
\* bar; and when an exit test closes a position on a bar whose entry signal is
\* true, a new position is opened on that same bar.
C4_ExitThenEntryWithinBar ==
    /\ \A k \in 1..Len(trades) :
          FromCheckExit(trades[k]) => trades[k].entry_idx < trades[k].exit_idx
    /\ (pc = "loop" /\ idx > 0 /\ \E k \in 1..Len(opened) : opened[k] = idx - 1) =>
          /\ in_trade
          /\ current_trade # {}
          /\ ~IsClosed(Some(current_trade))
          /\ Some(current_trade).entry_idx = idx - 1
    /\ \A k \in 1..Len(trades) :
          (FromCheckExit(trades[k]) /\ entry_signals[trades[k].exit_idx]) =>
              /\ k + 1 <= Len(opened)
              /\ opened[k + 1] = trades[k].exit_idx

\* C4 witness: a bar that is the exit_idx of one trade and the entry_idx of
\* the next.
C4_ReentryOnExitBar ==
    \E k \in 1..Len(trades) :
        /\ FromCheckExit(trades[k])
        /\ k + 1 <= Len(opened)
        /\ opened[k + 1] = trades[k].exit_idx

\* no exit condition can fire on any bar after entry bar e
NoExitAfter(e) ==
    \A i \in (e + 1)..LastIdx :
        /\ ~TimeLimitReached(e, i)
        /\ ~AdverseReached(i, StatedStop(e))
        /\ ~AdverseReached(i, df[e].close)
        /\ ~FavourableReached(i, StatedTarget(e))

\* C5: when run returns every position opened is in the trade list exactly
\* once; a position still open after the last bar is closed at the final index
\* at the final close with end_of_data; a single late entry with no exit
\* condition after it yields exactly that one trade.
C5_EveryPositionClosed ==
    pc = "done" =>
        /\ Len(trades) = Len(opened)
        /\ \A k \in 1..Len(trades) :
              /\ IsClosed(trades[k])
              /\ trades[k].entry_idx = opened[k]
              /\ trades[k].exit_reason = "end_of_data" =>
                    /\ k = Len(trades)
                    /\ trades[k].exit_idx = LastIdx
                    /\ trades[k].exit_price = df[LastIdx].close
        /\ (Len(opened) > 0 /\ ~FromCheckExit(trades[Len(trades)])) =>
              trades[Len(trades)].exit_reason = "end_of_data"
        /\ (Len(opened) = 1 /\ NoExitAfter(opened[1])) =>
              /\ Len(trades) = 1
              /\ trades[1].exit_reason = "end_of_data"
              /\ trades[1].exit_idx = LastIdx

\* C5 witness: a run returned with one trade, entered before the last bar and
\* closed by end_of_data.
C5_SingleEndOfDataTrade ==
    /\ pc = "done"
    /\ Len(opened) = 1
    /\ Len(trades) = 1
    /\ trades[1].exit_reason = "end_of_data"
    /\ trades[1].entry_idx < LastIdx

\* C6 (as claimed): when run has returned the engine is flat.
C6_FlatAfterRun ==
    pc = "done" => (~in_trade /\ current_trade = {})

\* C7: a true entry signal on a bar where the engine is flat opens a trade at
\* that bar's close with stop and target at the stated ATR distances; the
\* target never changes, and with the breakeven rule disabled neither does the
\* stop.
C7_EntryLevels ==
    /\ \A i \in 0..(idx - 1) :
          (entry_signals[i] /\ ~PositionHeldThrough(i)) =>
              \E k \in 1..Len(opened) : opened[k] = i
    /\ \A k \in 1..Len(opened) :
          LET t == TradeOf(k)
              e == opened[k]
          IN  /\ t.entry_idx = e
              /\ t.entry_price = df[e].close
              /\ t.direction = direction
              /\ t.take_profit = StatedTarget(e)
              /\ ~breakeven_at_tp1 => t.stop_loss = StatedStop(e)

\* C7 witness: breakeven disabled, a short position that is still open after a
\* later bar reached the halfway point to its target.
C7_ShortLevelsKept ==
    /\ pc = "loop"
    /\ in_trade
    /\ ~breakeven_at_tp1
    /\ direction = "short"
    /\ LET t == Some(current_trade)
       IN  /\ t.entry_idx < idx - 1
           /\ HalfwayReached(t.entry_idx, idx - 1)
           /\ t.stop_loss = t.entry_price + stop_loss_atr * df[t.entry_idx].atr

\* C8: scenarios A and B end with the one trade stated; and every take_profit
\* or stop_loss exit is booked at the trade's target or stop, on the first bar
\* after entry that reaches the level then in force.
C8_ScenariosAndLevelExits ==
    /\ (NumBars = 100 /\ pc = "done") =>
          /\ Len(trades) = 1
          /\ trades[1].entry_idx = 10
          /\ trades[1].entry_price = df[10].close
          /\ IF df[11].close > df[10].close
             THEN /\ trades[1].exit_idx = 13
                  /\ trades[1].exit_reason = "take_profit"
                  /\ trades[1].pnl = 3
             ELSE /\ trades[1].exit_idx = 12
                  /\ trades[1].exit_reason = "stop_loss"
                  /\ trades[1].pnl = -2
    /\ \A k \in 1..Len(trades) :
          LET t == trades[k]
              e == t.entry_idx
              held == (e + 1)..(t.exit_idx - 1)
          IN  /\ t.exit_reason = "take_profit" =>
                    /\ t.exit_price = t.take_profit
                    /\ t.pnl = Abs(t.take_profit - t.entry_price)
                    /\ FavourableReached(t.exit_idx, t.take_profit)
                    /\ \A i \in held : ~FavourableReached(i, t.take_profit)
              /\ t.exit_reason = "stop_loss" =>
                    /\ t.exit_price = t.stop_loss
                    /\ t.pnl = -Abs(t.entry_price - t.stop_loss)
                    /\ AdverseReached(t.exit_idx, t.stop_loss)
                    /\ \A i \in held : ~AdverseReached(i, StopInForce(e, i))
                    /\ ~breakeven_at_tp1 =>
                          \A i \in held : ~AdverseReached(i, t.stop_loss)

\* C8 witness: scenario B has run to its end with its stop_loss trade.
C8_ScenarioBDone ==
    /\ NumBars = 100
    /\ pc = "done"
    /\ df[11].close < df[10].close
    /\ Len(trades) = 1
    /\ trades[1].exit_reason = "stop_loss"

\* C9: with the breakeven rule the stop of a trade is its initial value until
\* a bar after entry, on which no exit fires, reaches the halfway point, and
\* the entry price from the next bar on; it is never loosened, and the bar of
\* the move is tested against the stop in force before the move.
C9_BreakevenRatchet ==
    \A k \in 1..Len(opened) :
        LET t == TradeOf(k)
            e == opened[k]
            tested == IF IsClosed(t) /\ FromCheckExit(t) THEN t.exit_idx ELSE idx
        IN  /\ t.stop_loss = StopInForce(e, tested)
            /\ t.stop_loss \in {StatedStop(e), df[e].close}
            /\ IF direction = "long" THEN t.stop_loss >= StatedStop(e)
                                     ELSE t.stop_loss <= StatedStop(e)
            /\ (IsClosed(t) /\ t.exit_reason = "stop_loss") =>
                  AdverseReached(t.exit_idx, StopInForce(e, t.exit_idx))

\* C9 witness: the stop of an open long trade was moved to the entry price on
\* a bar whose low was at or below the entry price, and the trade is still
\* open after that bar.
C9_MovedOnBarTouchingEntry ==
    /\ pc = "loop"
    /\ in_trade
    /\ breakeven_at_tp1
    /\ direction = "long"
    /\ LET t == Some(current_trade)
       IN  /\ t.entry_idx < idx - 1
           /\ t.stop_loss = t.entry_price
           /\ t.stop_loss > StatedStop(t.entry_idx)
           /\ StopInForce(t.entry_idx, idx - 1) = StatedStop(t.entry_idx)
           /\ df[idx - 1].low <= t.entry_price

RECURSIVE GrossProfit(_)
GrossProfit(s) ==
    IF s = <<>> THEN 0
    ELSE (IF s[1].pnl > 0 THEN s[1].pnl ELSE 0) + GrossProfit(Tail(s))

RECURSIVE GrossLoss(_)
GrossLoss(s) ==
    IF s = <<>> THEN 0
    ELSE (IF s[1].pnl < 0 THEN -s[1].pnl ELSE 0) + GrossLoss(Tail(s))

NumWinners == Cardinality({k \in 1..Len(trades) : trades[k].pnl > 0})

NumLosers == Cardinality({k \in 1..Len(trades) : trades[k].pnl < 0})

\* C10: for a non-empty trade list the profit factor is gross profit over
\* gross loss when a trade lost, and infinite when some trade won and none
\* lost; trades with pnl = 0 are neither winners nor losers.
C10_ProfitFactor ==
    \A s \in summary :
        Len(trades) > 0 =>
            /\ s.winning_trades = NumWinners
            /\ s.losing_trades = NumLosers
            /\ NumLosers >= 1 =>
                  /\ ~s.profit_factor.inf
                  /\ s.profit_factor.den > 0
                  /\ s.profit_factor.num * GrossLoss(trades)
                        = GrossProfit(trades) * s.profit_factor.den
            /\ (NumLosers = 0 /\ NumWinners >= 1) => s.profit_factor.inf

\* C10 witness: a summary of a list with a winner, a loser and a trade with
\* pnl = 0.
C10_MixedList ==
    /\ summary # {}
    /\ NumWinners >= 1
    /\ NumLosers >= 1
    /\ NumWinners + NumLosers < Len(trades)

\* statistic k is in the summary and is zero
StatIsZero(s, k) ==
    /\ k \in DOMAIN s
    /\ IF k = "total_pnl" THEN s[k] = 0
       ELSE IF k = "profit_factor" THEN ~s[k].inf /\ s[k].num = 0
       ELSE s[k].num = 0

\* C11 (as stated): after a run in which no entry occurred the trade table is
\* empty and get_summary returns a summary with trade count 0 in which win
\* rate, profit factor, max drawdown %, total PnL, average PnL per trade,
\* average bars held, average MAE and average MFE are all present and zero.
C11_ZeroTradeSummaryComplete ==
    (pc = "summarized" /\ opened = <<>>) =>
        /\ trades = <<>>
        /\ \A s \in summary :
             /\ s.total_trades = 0
             /\ \A k \in {"win_rate", "profit_factor", "max_dd_pct", "total_pnl",
                           "avg_pnl_per_trade", "avg_bars_held", "avg_mae", "avg_mfe"} :
                    StatIsZero(s, k)

\* cumulative PnL after the k-th trade of the table
Equity(k) == SumPnl(SubSeq(trades, 1, k))

\* highest cumulative PnL over the first k trades
PeakUpTo(k) ==
    CHOOSE m \in {Equity(j) : j \in 1..k} : \A j \in 1..k : m >= Equity(j)

\* how far the cumulative PnL stands below its running peak after trade k
Decline(k) == PeakUpTo(k) - Equity(k)

LargestDecline ==
    CHOOSE m \in {Decline(k) : k \in 1..Len(trades)} :
        \A k \in 1..Len(trades) : m >= Decline(k)

\* the first trade at which the largest decline is reached
Trough ==
    CHOOSE k \in 1..Len(trades) :
        /\ Decline(k) = LargestDecline
        /\ \A j \in 1..(k - 1) : Decline(j) < LargestDecline

\* C12 (as stated): for every non-empty table max_dd_pct = (P - E) / P * 100,
\* with E the cumulative PnL at the trough of the largest decline and P the
\* running peak at that trough; it is never negative, and it is 0 only when
\* the cumulative PnL never falls below its running peak.
C12_DrawdownOfPeak ==
    (pc = "summarized" /\ trades # <<>>) =>
        \A s \in summary :
            LET P == PeakUpTo(Trough)
                E == Equity(Trough)
                m == s.max_dd_pct
            IN  /\ m.num >= 0 /\ m.den > 0
                /\ P # 0 => m.num * P = (P - E) * 100 * m.den
                /\ m.num = 0 => LargestDecline = 0

\* C12 (amended): max_dd_pct = |P - E| / |P| * 100 when the running peak P at
\* the first trough of the largest decline is not 0, and 0 when P = 0; it is
\* never negative, and it is 0 when the cumulative PnL never falls below its
\* running peak.
C12_DrawdownOfAbsPeak ==
    (pc = "summarized" /\ trades # <<>>) =>
        \A s \in summary :
            LET P == PeakUpTo(Trough)
                E == Equity(Trough)
                m == s.max_dd_pct
            IN  /\ m.num >= 0 /\ m.den > 0
                /\ P # 0 => m.num * Abs(P) = Abs(P - E) * 100 * m.den
                /\ P = 0 => m.num = 0
                /\ LargestDecline = 0 => m.num = 0

\* C12 witness: a summary of a table whose cumulative PnL declines from a
\* negative running peak, reported as a positive percentage
C12_DeclineFromNegativePeak ==
    /\ pc = "summarized"
    /\ trades # <<>>
    /\ LargestDecline > 0
    /\ PeakUpTo(Trough) < 0
    /\ \E s \in summary : s.max_dd_pct.num > 0

\* C13 (as stated): when the entry signals' length differs from the series'
\* length, whether they are a plain sequence or a Series and whether they are
\* shorter or longer, run raises before any trade is opened or recorded.
C13_MismatchFailsFast ==
    signals_given.extent # "same" =>
        /\ pc # "done"
        /\ opened = <<>>
        /\ trades = <<>>

\* optimize has returned
SweepOver == opt_pc \in {"returned", "saved"}

\* the grid position of candidate p
PositionOf(p) == CHOOSE k \in 1..Len(param_grid) : param_grid[k] = p

\* what simulating candidate p gave
OutcomeOf(p) == backtest[PositionOf(p)]

\* records of candidate p in a list of results or diagnostics
RecordsOf(list, p) == {j \in 1..Len(list) : list[j].params = p}

\* the candidates at the grid positions ks, swept one after the other on a new
\* optimizer
RECURSIVE SweepOf(_)
SweepOf(ks) ==
    IF ks = <<>> THEN [results |-> <<>>, diagnostics |-> <<>>]
    ELSE LET k == ks[Len(ks)]
         IN  Collect(SweepOf(SubSeq(ks, 1, Len(ks) - 1)),
                     evaluate_combination(param_grid[k], backtest[k]))

GridPositions == [k \in 1..Len(param_grid) |-> k]

\* a summary meets the three admission thresholds
MeetsTrades(sm) == sm.total_trades >= min_trades

MeetsProfitFactor(sm) == ~PfLess(sm.profit_factor, min_profit_factor)

MeetsDrawdown(sm) == ~RatLess(max_drawdown_pct, sm.max_dd_pct)

\* C14: every candidate is classified by the first rule it fails, in the order
\* no trades, fewer trades than min_trades, profit factor below
\* min_profit_factor, drawdown above max_drawdown_pct: a diagnostic's reason
\* names a rule the candidate fails and it passes every earlier rule; a result
\* is a candidate that meets all three thresholds, equality included.
C14_FirstFailingRule ==
    /\ \A j \in 1..Len(self_diagnostics) :
          LET d == self_diagnostics[j]
              o == OutcomeOf(d.params)
              sm == o.summary
          IN  /\ d.why = "error" => o.raises
              /\ d.why # "error" => ~o.raises
              /\ d.why = "no_trades" => sm.total_trades = 0
              /\ d.why = "insufficient_trades" =>
                     sm.total_trades > 0 /\ ~MeetsTrades(sm)
              /\ d.why = "pf_fail" => MeetsTrades(sm) /\ ~MeetsProfitFactor(sm)
              /\ d.why = "dd_fail" =>
                     MeetsTrades(sm) /\ MeetsProfitFactor(sm) /\ ~MeetsDrawdown(sm)
    /\ \A j \in 1..Len(self_results) :
          LET o == OutcomeOf(self_results[j].params)
          IN  /\ ~o.raises
              /\ MeetsTrades(o.summary)
              /\ MeetsProfitFactor(o.summary)
              /\ MeetsDrawdown(o.summary)

\* C14 witness: a finished sweep with a survivor standing exactly on all three
\* thresholds and a pf_fail diagnostic for a candidate that fails the
\* drawdown rule as well
C14_ThresholdSurvivorAndDoubleFailure ==
    /\ SweepOver
    /\ \E j \in 1..Len(self_results) :
          /\ self_results[j].trades = min_trades
          /\ PfEq(self_results[j].profit_factor, min_profit_factor)
          /\ RatEq(self_results[j].max_dd_pct, max_drawdown_pct)
    /\ \E j \in 1..Len(self_diagnostics) :
          /\ self_diagnostics[j].why = "pf_fail"
          /\ ~MeetsDrawdown(OutcomeOf(self_diagnostics[j].params).summary)

\* C15: a candidate whose simulation raised has exactly one record, an error
\* diagnostic; optimize returns a table all the same; and the results and the
\* other diagnostics are those of a sweep of the grid without the raising
\* candidates, in either mode.
C15_ErrorsContained ==
    SweepOver =>
        LET ok == SelectSeq(GridPositions, LAMBDA k : ~backtest[k].raises)
        IN  /\ \A k \in 1..Len(param_grid) :
                  backtest[k].raises =>
                      /\ RecordsOf(self_results, param_grid[k]) = {}
                      /\ Cardinality(RecordsOf(self_diagnostics, param_grid[k])) = 1
                      /\ \A j \in RecordsOf(self_diagnostics, param_grid[k]) :
                             self_diagnostics[j].why = "error"
            /\ returned # {}
            /\ self_results = SweepOf(ok).results
            /\ SelectSeq(self_diagnostics, LAMBDA d : d.why # "error")
                   = SweepOf(ok).diagnostics

\* C15 witness: a finished parallel sweep in which a candidate raised and a
\* later candidate of the grid survived
C15_SurvivorAfterError ==
    /\ SweepOver
    /\ use_multiprocessing
    /\ \E k \in 1..Len(param_grid) :
          /\ backtest[k].raises
          /\ \E j \in 1..Len(self_results) : PositionOf(self_results[j].params) > k

\* C16: when optimize returns on a new optimizer every candidate of the grid
\* has been evaluated and has exactly one record, a result or a diagnostic
\* with one of the five reasons, so results and diagnostics together number
\* the grid; with no survivor the returned table is empty.
C16_OneRecordPerCandidate ==
    SweepOver =>
        /\ Len(self_results) + Len(self_diagnostics) = Len(param_grid)
        /\ DOMAIN backtest = 1..Len(param_grid)
        /\ \A k \in 1..Len(param_grid) :
              Cardinality(RecordsOf(self_results, param_grid[k]))
                + Cardinality(RecordsOf(self_diagnostics, param_grid[k])) = 1
        /\ \A j \in 1..Len(self_diagnostics) :
              self_diagnostics[j].why \in
                  {"no_trades", "insufficient_trades", "pf_fail", "dd_fail", "error"}
        /\ returned # {}
        /\ self_results = <<>> => returned = {<<>>}

\* C16 witness: a finished sweep of several candidates none of which survived
C16_NoSurvivor ==
    /\ SweepOver
    /\ Len(param_grid) > 1
    /\ self_results = <<>>
    /\ Len(self_diagnostics) = Len(param_grid)
    /\ returned = {<<>>}

\* row a may stand directly ahead of row b in the ranking: more trades, or as
\* many and a higher profit factor, or both equal and a higher win rate, or
\* all three equal and a drawdown no higher
InRankOrder(a, b) ==
    \/ a.trades > b.trades
    \/ /\ a.trades = b.trades
       /\ PfLess(b.profit_factor, a.profit_factor)
    \/ /\ a.trades = b.trades
       /\ PfEq(a.profit_factor, b.profit_factor)
       /\ RatLess(b.win_rate, a.win_rate)
    \/ /\ a.trades = b.trades
       /\ PfEq(a.profit_factor, b.profit_factor)
       /\ RatEq(a.win_rate, b.win_rate)
       /\ ~RatLess(b.max_dd_pct, a.max_dd_pct)

\* C17: the table optimize returns holds exactly the surviving results, one
\* row each, ordered by trades descending, then profit factor descending,
\* then win rate descending, then max drawdown % ascending.
C17_RankedTable ==
    (SweepOver /\ self_results # <<>>) =>
        \A t \in returned :
            /\ \A k \in 1..(Len(t) - 1) : InRankOrder(t[k], t[k + 1])
            /\ Len(t) = Len(self_results)
            /\ \A j \in 1..Len(self_results) :
                  Cardinality({k \in 1..Len(t) : t[k] = self_results[j]}) = 1
            /\ \A k \in 1..Len(t) :
                  evaluate_combination(t[k].params, OutcomeOf(t[k].params))[1] = {t[k]}

\* C17 witness: a returned table of several rows whose order is not the order
\* in which the results were collected
C17_TableReordered ==
    /\ SweepOver
    /\ Len(self_results) > 1
    /\ returned # {self_results}
    /\ returned # {}

\* C18: results, diagnostics and the ranked table of a sweep are those of the
\* candidates evaluated one after the other in grid order, in parallel mode
\* as in sequential mode, whatever the order in which the workers finished;
\* rows that tie on all four keys included.
C18_ModeIndependent ==
    SweepOver =>
        LET seq == SweepOf(GridPositions)
        IN  /\ self_results = seq.results
            /\ self_diagnostics = seq.diagnostics
            /\ returned = {IF seq.results = <<>> THEN <<>>
                           ELSE sort_values(seq.results)}

\* two rows equal on all four ranking keys
TiedOnKeys(a, b) ==
    /\ a.trades = b.trades
    /\ PfEq(a.profit_factor, b.profit_factor)
    /\ RatEq(a.win_rate, b.win_rate)
    /\ RatEq(a.max_dd_pct, b.max_dd_pct)

\* C18 witness: a finished parallel sweep with a diagnostic and with two rows
\* of the table tying on all four keys
C18_ParallelSweepWithTie ==
    /\ SweepOver
    /\ use_multiprocessing
    /\ self_diagnostics # <<>>
    /\ \E t \in returned :
          \E a \in 1..Len(t) : \E b \in (a + 1)..Len(t) : TiedOnKeys(t[a], t[b])

\* C19 (as stated): no two distinct surviving candidates are equal on all four
\* ranking keys, so the keys alone determine the ranked order.
C19_NoFullTies ==
    SweepOver =>
        \A t \in returned :
            \A a \in 1..Len(t) : \A b \in (a + 1)..Len(t) : ~TiedOnKeys(t[a], t[b])

\* C19 (amended): distinct surviving candidates can be equal on all four
\* ranking keys; rows that tie on all four stand in the returned table in the
\* order in which their results were collected, which is grid order.
C19_TiesKeepCollectionOrder ==
    SweepOver =>
        \A t \in returned :
            \A a \in 1..Len(t) : \A b \in (a + 1)..Len(t) :
                TiedOnKeys(t[a], t[b]) =>
                    /\ PositionOf(t[a].params) < PositionOf(t[b].params)
                    /\ \E i \in 1..Len(self_results) :
                       \E j \in (i + 1)..Len(self_results) :
                          self_results[i] = t[a] /\ self_results[j] = t[b]

\* C19 witness: a returned table with two distinct candidates equal on all
\* four keys
C19_TwoTiedSurvivors ==
    /\ SweepOver
    /\ \E t \in returned :
          \E a \in 1..Len(t) : \E b \in (a + 1)..Len(t) :
              /\ TiedOnKeys(t[a], t[b])
              /\ t[a].params # t[b].params

\* C20 (as stated): the result records save_results writes after optimize are
\* in the order of the ranked table optimize returned.
C20_SavedInRankOrder ==
    (opt_pc = "saved" /\ saved # {}) =>
        \A f \in saved : returned = {f.results}

\* ------------------------------------------------------------------ grid generator: properties
\* the parameter sets of the whole product, in enumeration order
AllParams ==
    [k \in 1..Len(Combinations(generator.ranges)) |->
        ParamsOf(Combinations(generator.ranges)[k])]

\* a parameter set with contradictory filters
Contradictory(p) ==
    \/ \E lo \in p.atr_min : \E hi \in p.atr_max : lo >= hi
    \/ \E r \in p.rsi_min : r >= 70

IsValid(p) == ~Contradictory(p)

\* the valid parameter sets in enumeration order
ValidList == SelectSeq(AllParams, IsValid)

\* the entries of a list as a set
Entries(list) == {list[k] : k \in 1..Len(list)}

Min2(a, b) == IF a <= b THEN a ELSE b

\* the number of valid sets among the first k of the product
ValidUpTo(k) == Cardinality({j \in 1..k : IsValid(AllParams[j])})

GeneratorReturned == generator.pc = "returned"

\* the sampling branch ran
Sampled == GeneratorReturned /\ Len(generator.param_grid) > generator.max_combos

\* C21: no returned parameter set has both ATR bounds set with the lower at
\* or above the upper, nor an RSI minimum of 70 or more, whether the list
\* was sampled or not; the same holds of the list while it is collected
C21_NoContradictoryFilters ==
    /\ \A p \in Entries(generator.returned) : ~Contradictory(p)
    /\ \A p \in Entries(generator.param_grid) : ~Contradictory(p)

\* C21 witness: a sampled list returned from ranges whose product holds a
\* set with equal ATR bounds and a set with an RSI minimum of exactly 70
C21_SampledFromPrunedProduct ==
    /\ Sampled
    /\ \E p \in Entries(AllParams) : p.atr_min # {} /\ p.atr_min = p.atr_max
    /\ \E p \in Entries(AllParams) : p.rsi_min = {70}

\* C22 as stated: an empty list is returned only if every configured range
\* is empty
C22_EmptyOnlyIfAllRangesEmpty ==
    (GeneratorReturned /\ generator.returned = <<>>)
        => \A k \in 1..Len(RangeNames) : generator.ranges[RangeNames[k]] = <<>>

\* C22 amended: with a cap of at least 1 the returned list is empty exactly
\* when the product holds no valid parameter set, which is the case when any
\* one range is empty or when every combination is filtered out
C22_EmptyIffNoValidCombination ==
    GeneratorReturned =>
        /\ (generator.returned = <<>>) = (ValidList = <<>>)
        /\ (\E k \in 1..Len(RangeNames) : generator.ranges[RangeNames[k]] = <<>>)
              => generator.returned = <<>>

\* C22 witness: an empty list returned although no range is empty, every
\* combination being filtered out
C22_AllFilteredOut ==
    /\ GeneratorReturned
    /\ generator.returned = <<>>
    /\ \A k \in 1..Len(RangeNames) : generator.ranges[RangeNames[k]] # <<>>
    /\ generator.total_checked > 0

\* C23: at most cap valid sets: all are returned, each once, in product
\* order. More than cap: the collected list is the first 2*cap valid sets
\* (all of them if there are fewer), enumeration having stopped at the
\* 2*cap-th valid set or at the end of the product, and the returned list is
\* cap entries taken from distinct positions of the collected list. The
\* returned list never has more than cap entries.
C23_CapAndEarlyStop ==
    GeneratorReturned =>
        LET cap == generator.max_combos
            collected == generator.param_grid
        IN  /\ Len(generator.returned) <= cap
            /\ collected = SubSeq(ValidList, 1, Min2(2 * cap, Len(ValidList)))
            /\ IF Len(ValidList) >= 2 * cap
               THEN /\ ValidUpTo(generator.total_checked) = 2 * cap
                    /\ IsValid(AllParams[generator.total_checked])
               ELSE generator.total_checked = Len(AllParams)
            /\ IF Len(ValidList) <= cap
               THEN generator.returned = ValidList
               ELSE /\ Len(generator.returned) = cap
                    /\ \E c \in Choices(Len(collected), cap) :
                          generator.returned = [i \in 1..cap |-> collected[c[i]]]

\* C23 witness: enumeration stopped before the end of the product and the
\* sample returned is not the head of the collected list
C23_StoppedEarlyAndSampled ==
    /\ Sampled
    /\ generator.total_checked < Len(AllParams)
    /\ generator.returned # SubSeq(generator.param_grid, 1, generator.max_combos)

\* C24 as stated: when the valid sets exceed the cap, every valid set of the
\* product appears in the returned list for some outcome of the sampling
C24_EveryValidSetCanBeSampled ==
    (generator.pc = "sample" /\ Len(ValidList) > generator.max_combos) =>
        \A v \in Entries(ValidList) :
            \E c \in Choices(Len(generator.param_grid), generator.max_combos) :
                \E i \in 1..generator.max_combos : generator.param_grid[c[i]] = v

\* ------------------------------------------------------------------ strategy builder: properties
BuilderCalled == builder.last # <<>>

AddCalls == FilterMethods \cup {"add_pattern", "add_custom_filter"}

\* the argument of an add call names a column the frame lacks or is not a
\* well-formed comparison
InvalidArgument ==
    \/ builder.last.call = "add_pattern" /\ builder.last.arg \notin {"pattern_x", "rsi_14"}
    \/ /\ builder.last.call \in FilterMethods
       /\ ~(builder.last.arg.field \in {"pattern_x", "rsi_14"}
              /\ builder.last.arg.op \in {">=", "<"})

\* C25: get_entry_signal returns, at every bar, the conjunction of the set
\* of conditions added so far, so the same signal for every order of
\* insertion and on every repeated call, and it leaves the conditions and
\* the descriptions as they were
C25_SignalIsConjunction ==
    (BuilderCalled /\ builder.last.call = "get_entry_signal" /\ ~builder.last.raised) =>
        /\ Len(builder.last.result) = Len(builder.df.rsi_14)
        /\ \A b \in 1..Len(builder.df.rsi_14) :
              builder.last.result[b] = (\A k \in 1..Len(builder.conditions) : builder.conditions[k][b])
        /\ builder.conditions = builder.last.conditions
        /\ builder.description = builder.last.description

\* C25 witness: a signal returned from three distinct conditions, true at
\* some bar and false at a bar where one condition holds and another fails
C25_SignalOfThreeConditions ==
    /\ BuilderCalled
    /\ builder.last.call = "get_entry_signal"
    /\ Len(builder.conditions) = 3
    /\ Cardinality(Entries(builder.conditions)) = 3
    /\ \E b \in 1..3 : builder.last.result[b]
    /\ \E b \in 1..3 : ~builder.conditions[1][b] /\ builder.conditions[3][b]

\* C26: a call fails exactly when add_pattern names an absent column, a
\* filter method is given an invalid expression, or get_entry_signal is
\* called with no condition added; a failed call leaves the conditions and
\* the descriptions unchanged, a successful add appends one of each
C26_ErrorsAtBuildTime ==
    BuilderCalled =>
        /\ builder.last.raised =
              (\/ builder.last.call \in AddCalls /\ InvalidArgument
               \/ builder.last.call = "get_entry_signal" /\ builder.last.conditions = <<>>)
        /\ builder.last.raised =>
              /\ builder.conditions = builder.last.conditions
              /\ builder.description = builder.last.description
        /\ (builder.last.call \in AddCalls /\ ~builder.last.raised) =>
              /\ Len(builder.conditions) = Len(builder.last.conditions) + 1
              /\ Len(builder.description) = Len(builder.last.description) + 1
              /\ SubSeq(builder.conditions, 1, Len(builder.last.conditions)) = builder.last.conditions
              /\ SubSeq(builder.description, 1, Len(builder.last.description)) = builder.last.description

\* C26 witness: a filter on a column the frame lacks fails on a builder
\* that already holds two conditions
C26_FailedAddAfterTwo ==
    /\ BuilderCalled
    /\ builder.last.call \in FilterMethods
    /\ builder.last.raised
    /\ builder.last.arg.field = "adx_14"
    /\ Len(builder.conditions) = 2

\* ------------------------------------------------------------------ worker: properties
\* C27: whatever candidates a worker has evaluated, and with whatever
\* outcome, its series, pattern and direction are those it was given (the
\* series being the optimizer's own in sequential mode), also while an
\* evaluation is running; and a candidate evaluated twice by the worker has
\* the same outcome both times, whatever was evaluated before or between
C27_SharedStateUntouched ==
    /\ worker.df = worker.given.df
    /\ worker.pattern = worker.given.pattern
    /\ worker.direction = worker.given.direction
    /\ \A i \in 1..Len(worker.evaluated) : \A j \in 1..Len(worker.evaluated) :
          worker.evaluated[i].params = worker.evaluated[j].params
              => /\ worker.evaluated[i].raised = worker.evaluated[j].raised
                 /\ worker.evaluated[i].trades = worker.evaluated[j].trades

\* C27 witness: a candidate evaluated first and again after a different
\* candidate that raised, with trades both times
C27_SameCandidateAfterError ==
    /\ Len(worker.evaluated) = 3
    /\ worker.evaluated[1].params = worker.evaluated[3].params
    /\ worker.evaluated[1].trades # <<>>
    /\ worker.evaluated[2].raised
    /\ worker.pc = "ready"

\* ------------------------------------------------------------------ excursions and time limit
\* the bars a closed trade was held over, entry and exit bar included
HeldOver(t) == t.entry_idx..t.exit_idx

\* C28: the MAE and MFE of every closed trade are taken over the bars
\* entry_idx .. exit_idx inclusive, as percentages of the entry price: for a
\* long trade from the lowest low and the highest high, for a short trade
\* from the highest high and the lowest low, each counted from the entry
\* price in the trade's favour; MAE <= 0 <= MFE
C28_ExcursionsOverHeldBars ==
    \A k \in 1..Len(trades) :
        LET t == trades[k]
            e == t.entry_price
        IN  \E jl \in HeldOver(t) : \E jh \in HeldOver(t) :
              /\ \A j \in HeldOver(t) : df[jl].low <= df[j].low /\ df[jh].high >= df[j].high
              /\ t.mae.den > 0
              /\ t.mfe.den > 0
              /\ IF t.direction = "long"
                 THEN /\ t.mae.num * e = (df[jl].low - e) * 100 * t.mae.den
                      /\ t.mfe.num * e = (df[jh].high - e) * 100 * t.mfe.den
                 ELSE /\ t.mae.num * e = (e - df[jh].high) * 100 * t.mae.den
                      /\ t.mfe.num * e = (e - df[jl].low) * 100 * t.mfe.den
              /\ t.mae.num <= 0
              /\ t.mfe.num >= 0

\* C28 witness: a long trade held over three bars whose highest high is on
\* the middle bar and whose lowest low is on the exit bar, with MAE < 0 < MFE
C28_ExtremesInsideAndAtExit ==
    \E k \in 1..Len(trades) :
        LET t == trades[k]
        IN  /\ t.direction = "long"
            /\ t.exit_idx = t.entry_idx + 2
            /\ df[t.entry_idx + 1].high > df[t.entry_idx].high
            /\ df[t.entry_idx + 1].high > df[t.exit_idx].high
            /\ df[t.exit_idx].low < df[t.entry_idx].low
            /\ df[t.exit_idx].low < df[t.entry_idx + 1].low
            /\ t.mae.num < 0
            /\ t.mfe.num > 0

\* C29: with max_hold_bars = N no trade is held more than N bars, open or
\* closed; a trade held exactly N bars was closed at that bar's close with
\* time_exit, and only such trades have time_exit; with max_hold_bars unset
\* no trade has time_exit
C29_TimeLimit ==
    /\ \A k \in 1..Len(trades) :
          LET t == trades[k]
          IN  /\ t.bars_held = t.exit_idx - t.entry_idx
              /\ \A n \in max_hold_bars :
                    /\ t.bars_held <= n
                    /\ t.bars_held = n =>
                          /\ t.exit_reason = "time_exit"
                          /\ t.exit_price = df[t.exit_idx].close
              /\ t.exit_reason = "time_exit" => t.bars_held \in max_hold_bars
    /\ (pc = "loop" /\ in_trade) =>
          \A t \in current_trade : \A n \in max_hold_bars : (idx - 1) - t.entry_idx < n

\* C29 witness: a long trade closed by the time limit of two bars at the
\* close of a bar whose low is at the stop and whose high is above the
\* entry price
C29_TimeExitOnStopBar ==
    \E k \in 1..Len(trades) :
        LET t == trades[k]
        IN  /\ max_hold_bars = {2}
            /\ t.direction = "long"
            /\ t.exit_reason = "time_exit"
            /\ t.bars_held = 2
            /\ df[t.exit_idx].low <= t.stop_loss
            /\ df[t.exit_idx].high > t.entry_price
            /\ t.exit_price = df[t.exit_idx].close

\* ------------------------------------------------------------------ repeated calls
RECURSIVE GridTotal(_)
GridTotal(cs) == IF cs = <<>> THEN 0 ELSE Head(cs).grid + GridTotal(Tail(cs))

\* list a is the head of list b
IsPrefix(a, b) == Len(a) <= Len(b) /\ SubSeq(b, 1, Len(a)) = a

\* the number of positions of a list holding x
CountIn(list, x) == Cardinality({k \in 1..Len(list) : list[k] = x})

\* C30: optimize() never clears results or diagnostics: the lists every
\* earlier call left are the heads of the present lists; once a call has
\* returned, the two lists together hold as many entries as the grids of
\* all calls so far (k times the grid size for k calls over one grid); and
\* when survivors exist the table of a later call holds every entry of
\* results, so the survivors of every earlier call, and each survivor of a
\* sweep repeated over the same grid twice
C30_ResultsAccumulate ==
    /\ \A c \in 1..Len(calls) :
          /\ IsPrefix(calls[c].results, self_results)
          /\ IsPrefix(calls[c].diagnostics, self_diagnostics)
    /\ opt_pc = "returned" =>
          /\ Len(self_results) + Len(self_diagnostics) = GridTotal(calls) + Len(param_grid)
          /\ (\A c \in 1..Len(calls) : calls[c].grid = Len(param_grid))
                => Len(self_results) + Len(self_diagnostics)
                     = (Len(calls) + 1) * Len(param_grid)
          /\ (Len(param_grid) > 0 /\ self_results # <<>>) =>
                \A table \in returned :
                    /\ Len(table) = Len(self_results)
                    /\ \A r \in Entries(self_results) :
                          CountIn(table, r) = CountIn(self_results, r)
                    /\ \A c \in 1..Len(calls) : \A r \in Entries(calls[c].results) :
                          /\ CountIn(table, r) >= 1
                          /\ (Len(calls) = 1 /\ calls[c].grid = Len(param_grid))
                                => CountIn(table, r) = 2

\* C30 witness: a second call over the same grid of three candidates has
\* returned, the first call having left two survivors and one diagnostic
C30_SecondCallOverSameGrid ==
    /\ opt_pc = "returned"
    /\ Len(calls) = 1
    /\ calls[1].grid = 3
    /\ Len(param_grid) = 3
    /\ Len(calls[1].results) = 2
    /\ Len(calls[1].diagnostics) = 1
    /\ Len(self_results) = 4
    /\ \E table \in returned : Len(table) = 4

====
